---- MODULE Spec2Model ----
(***************************************************************************)
(* The streaming client of the market dashboard (src/lib/websocket/        *)
(* client.ts), its order-book update processor (the order-book-utils part  *)
(* of src/lib/websocket/logger.ts) and the configuration constants         *)
(* (src/unnamed/part_007), as a state machine.                             *)
(*                                                                         *)
(* One client instance is modelled.  Its handlers run to completion, one   *)
(* per event-loop turn, so every handler is one action.  The environment   *)
(* is the consumer (connect, disconnect, subscribe, unsubscribe), the      *)
(* browser's transports (WebSocket objects: open, message, error, close    *)
(* events) and the browser's timers.                                       *)
(***************************************************************************)
EXTENDS Integers, Sequences, FiniteSets, TLC

VARIABLES
    ws,                  \* this.ws: 0 (null) or the id of a transport
    reconnectAttempts,   \* this.reconnectAttempts
    reconnectTimeoutId,  \* this.reconnectTimeoutId: 0 (null) or a timer handle
    subscribedProducts,  \* this.subscribedProducts: a set of product ids
    subscriptionCounts,  \* this.subscriptionCounts: a map, product id -> count
    orderBooks,          \* this.orderBooks: a map, product id -> OrderBookData
    state,               \* this.state: isConnected, isConnecting, error
    readyState,          \* browser: readyState of every WebSocket constructed
    established,         \* browser: the transports whose opening handshake completed
    inTask,              \* browser: 0, or the transport whose error event has just
                         \* been fired and whose close event follows in the same task
    timers,              \* browser: the pending timers set by setTimeout
    timerSeq,            \* browser: the number of setTimeout calls so far
    sent,                \* the frames the last handler wrote with ws.send
    last,                \* the last operation that ran, and what it decided
    scheduledSinceOpen,  \* reconnections scheduled since the last open event
    exhausted,           \* the retry budget was reported exhausted and the
                         \* consumer has not called connect() since
    disconnected,        \* the transports disconnect() closed, the consumer not
                         \* having called connect() since
    consumerCalls,       \* connect()/disconnect() calls the consumer has made
    applyIn,             \* the arguments of a call of processOrderBookUpdates
    applyOut,            \* what the call, and its replay, returned
    priceUpdateCallbacks, \* this.priceUpdateCallbacks: a Set, in insertion order
    removedCallbacks,    \* the callbacks removed and not added since
    registeredTwice,     \* the registered callbacks added again while registered
    onWire,              \* the pairs <<transport, product>> for which the last
                         \* frame written to the transport, not closed
                         \* since, is a subscribe
    isInitializedRef,    \* provider: isInitializedRef.current
    clientRef,           \* provider: the number of clients it has constructed,
                         \* clientRef.current being the last (0: null)
    pendingOperationsRef, \* provider: pendingOperationsRef.current
    submitted,           \* the operations passed to executeWhenReady, in order
    executed,            \* the operations run on a client, in order
    priceIncrement,      \* AggregationProvider: the state priceIncrement, in
                         \* ten-thousandths
    aggregatedOrderBook, \* OrderBookChart: what its useMemo computed for the
                         \* order book and priceIncrement of now, if it has
    referenceBooks,      \* for each product an observer of the feed follows,
                         \* the order book of its last snapshot and the
                         \* updates since, kept without depth bound (<<>>
                         \* before a snapshot)
    contextOrderBooks,   \* provider: <<state.orderBooks>> of the provider that
                         \* listens to the client, <<>> where none does
    channelToSubscription \* datafeed: <<this.channelToSubscription>>, a map
                         \* from a symbol to the subscriber ids of its
                         \* handlers, <<>> where no datafeed was constructed

connVars == <<ws, reconnectAttempts, reconnectTimeoutId, state, readyState,
              established, inTask, timers, timerSeq, scheduledSinceOpen,
              exhausted, disconnected, consumerCalls>>
subVars  == <<subscribedProducts, subscriptionCounts, orderBooks>>
aggVars  == <<priceIncrement, aggregatedOrderBook>>
pureVars == <<applyIn, applyOut, aggVars, referenceBooks, contextOrderBooks,
              channelToSubscription>>
cbVars   == <<priceUpdateCallbacks, removedCallbacks, registeredTwice>>
ctxVars  == <<isInitializedRef, clientRef, pendingOperationsRef, submitted,
              executed>>
vars     == <<connVars, subVars, pureVars, cbVars, ctxVars, onWire, sent, last>>

(***************************************************************************)
(* Configuration constants (WEBSOCKET_CONFIG).                             *)
(***************************************************************************)
MAX_RECONNECT_ATTEMPTS == 5
RECONNECT_BASE_DELAY   == 1000
MAX_RECONNECT_DELAY    == 30000
ORDER_BOOK_DEPTH       == 10
NORMAL_CLOSURE_CODE    == 1000
CHANNEL                == "level2"

\* The close code of a closure without a close frame (RFC 6455, 7.4.1).
ABNORMAL_CLOSURE_CODE  == 1006

(***************************************************************************)
(* Bounds of the model.                                                    *)
(***************************************************************************)
MaxTransports    == 3   \* WebSocket objects constructed in one behaviour
MaxRetryTransports == 8 \* the same, where no product is subscribed
MaxPolicyTransports == 6 \* the same, where one closure is studied
MaxPolicyCalls == 1      \* connect()/disconnect() calls, where one closure is studied
MaxErrorTransports == 3  \* WebSocket objects, where the error field is studied
MaxErrorCalls == 2       \* connect()/disconnect() calls, the same
MaxCount         == 2   \* subscribers of one product at a time
MaxConsumerCalls == 3   \* connect()/disconnect() calls by the consumer
MaxRetryCalls    == 2   \* the same, where no product is subscribed
MaxSubTransports == 2   \* WebSocket objects, where the subscriptions are studied
MaxSubCalls      == 2   \* connect()/disconnect() calls, the same

Products   == {"BTC-USD", "ETH-USD"}
\* The WebSocket objects constructed so far: readyState has one entry for each.
Transports == DOMAIN readyState
CloseCodes == {NORMAL_CLOSURE_CODE, ABNORMAL_CLOSURE_CODE}

Min(a, b) == IF a < b THEN a ELSE b

RECURSIVE Pow2(_)
Pow2(n) == IF n = 0 THEN 1 ELSE 2 * Pow2(n - 1)

\* The number of WebSocket objects constructed so far.
Created == Len(readyState)

EmptyOrderBook == [bids |-> <<>>, asks |-> <<>>, lastUpdated |-> FALSE]

(***************************************************************************)
(* Decimal strings.  Prices and sizes are strings; the code compares       *)
(* prices as strings (findIndex) and orders them as numbers (parseFloat).  *)
(* NumberTable lists the decimal strings of the model with the number      *)
(* parseFloat gives for each, in hundredths; "100.0" and "100.00" are two  *)
(* strings of one number.  A string that is not in the table is not a      *)
(* number: parseFloat gives NaN for it.  Every price of the table is an    *)
(* even number of hundredths, so that the mean of two prices is a whole    *)
(* number of hundredths.                                                   *)
(***************************************************************************)
NumberTable ==
    << <<"0", 0>>, <<"0.00", 0>>, <<"1", 100>>, <<"2", 200>>, <<"3", 300>>,
       <<"90.00", 9000>>, <<"91.00", 9100>>, <<"92.00", 9200>>,
       <<"93.00", 9300>>, <<"94.00", 9400>>, <<"95.00", 9500>>,
       <<"96.00", 9600>>, <<"97.00", 9700>>, <<"98.00", 9800>>,
       <<"99.00", 9900>>, <<"99.50", 9950>>, <<"100.0", 10000>>,
       <<"100.00", 10000>>, <<"100.20", 10020>>, <<"100.50", 10050>>,
       <<"101.00", 10100>>, <<"101.50", 10150>>, <<"102.00", 10200>>,
       <<"103.00", 10300>>, <<"104.00", 10400>>, <<"105.00", 10500>>,
       <<"106.00", 10600>>, <<"107.00", 10700>>, <<"108.00", 10800>>,
       <<"109.00", 10900>>, <<"110.00", 11000>>, <<"111.00", 11100>>,
       <<"112.00", 11200>> >>

NumericStrings == {NumberTable[i][1] : i \in DOMAIN NumberTable}

NumberOf ==
    [s \in NumericStrings |->
        NumberTable[CHOOSE i \in DOMAIN NumberTable : NumberTable[i][1] = s][2]]

IsNumeric(s) == s \in NumericStrings

\* parseFloat of a numeric string, in hundredths.
ParseFloat(s) == NumberOf[s]

\* parseFloat(s) === 0, which is false of NaN.
ParsesToZero(s) == IsNumeric(s) /\ ParseFloat(s) = 0

(***************************************************************************)
(* The order-book update processor (order-book-utils).  An update is       *)
(* [side, price_level, new_quantity, exchange], exchange "" when the feed  *)
(* gives none; an entry is [price, size, exchange].                        *)
(***************************************************************************)
EntryOf(update) ==
    [price    |-> update.price_level,
     size     |-> update.new_quantity,
     exchange |-> IF update.exchange = "" THEN "Coinbase" ELSE update.exchange]

\* The comparator of sortOrderBookEntries: negative, zero or positive.
Compare(a, b, side) ==
    IF side = "bid"
    THEN ParseFloat(b.price) - ParseFloat(a.price)
    ELSE ParseFloat(a.price) - ParseFloat(b.price)

\* Array.prototype.sort is stable: an entry goes after those it does not
\* precede, in the order of the array.
RECURSIVE InsertEntry(_, _, _)
InsertEntry(sorted, e, side) ==
    IF sorted = <<>> THEN <<e>>
    ELSE IF Compare(Head(sorted), e, side) <= 0
         THEN <<Head(sorted)>> \o InsertEntry(Tail(sorted), e, side)
         ELSE <<e>> \o sorted

RECURSIVE sortOrderBookEntries(_, _)
sortOrderBookEntries(entries, side) ==
    IF entries = <<>> THEN <<>>
    ELSE InsertEntry(sortOrderBookEntries(SubSeq(entries, 1, Len(entries) - 1), side),
                     entries[Len(entries)], side)

\* slice(0, n)
Slice(s, n) == SubSeq(s, 1, Min(Len(s), n))

\* filter: the updates of one side, in order.
OfSide(updates, side) == SelectSeq(updates, LAMBDA u : u.side = side)

\* findIndex by price string: 0 when there is none.
FindIndex(entries, price) ==
    IF \E i \in DOMAIN entries : entries[i].price = price
    THEN CHOOSE i \in DOMAIN entries :
             /\ entries[i].price = price
             /\ \A j \in 1..(i - 1) : entries[j].price # price
    ELSE 0

RemoveAt(s, i) == SubSeq(s, 1, i - 1) \o SubSeq(s, i + 1, Len(s))

\* The body of the forEach of processOrderBookUpdates, for one update.
ApplyUpdate(entries, update) ==
    LET entry == EntryOf(update)
        existingIndex == FindIndex(entries, entry.price)
    IN  IF ParsesToZero(entry.size)
        THEN IF existingIndex # 0 THEN RemoveAt(entries, existingIndex)
             ELSE entries
        ELSE IF existingIndex # 0
             THEN [entries EXCEPT ![existingIndex] = entry]
             ELSE Append(entries, entry)

RECURSIVE ApplyAll(_, _)
ApplyAll(entries, updates) ==
    IF updates = <<>> THEN entries
    ELSE ApplyAll(ApplyUpdate(entries, Head(updates)), Tail(updates))

\* processOrderBookUpdates without the slice to the depth bound.
processWithoutDepth(currentEntries, updates, side) ==
    sortOrderBookEntries(ApplyAll(currentEntries, OfSide(updates, side)), side)

processOrderBookUpdates(currentEntries, updates, side) ==
    Slice(sortOrderBookEntries(ApplyAll(currentEntries, OfSide(updates, side)), side),
          ORDER_BOOK_DEPTH)

\* map over a sequence of updates
EntriesOf(updates) == [i \in DOMAIN updates |-> EntryOf(updates[i])]

createOrderBookSnapshot(updates) ==
    [bids |-> Slice(sortOrderBookEntries(EntriesOf(OfSide(updates, "bid")), "bid"),
                    ORDER_BOOK_DEPTH),
     asks |-> Slice(sortOrderBookEntries(EntriesOf(OfSide(updates, "offer")), "offer"),
                    ORDER_BOOK_DEPTH)]

\* calculateMidPrice: <<>> for null, else the one price, in hundredths.
calculateMidPrice(orderBook) ==
    IF Len(orderBook.bids) = 0 \/ Len(orderBook.asks) = 0
    THEN <<>>
    ELSE <<(ParseFloat(orderBook.bids[1].price)
            + ParseFloat(orderBook.asks[1].price)) \div 2>>

(***************************************************************************)
(* Helpers of the client.  Each returns the new value of what it writes.   *)
(***************************************************************************)
MapSet(m, k, v) == [x \in DOMAIN m \cup {k} |-> IF x = k THEN v ELSE m[x]]
MapDelete(m, k) == [x \in DOMAIN m \ {k} |-> m[x]]

\* this.subscriptionCounts.get(productId) || 0
CountIn(counts, productId) ==
    IF productId \in DOMAIN counts THEN counts[productId] ELSE 0

Count(productId) == CountIn(subscriptionCounts, productId)

\* updateState that keeps no error the update does not name.
updateStateFresh(st, updates) ==
    [f \in DOMAIN st |-> IF f \in DOMAIN updates THEN updates[f]
                         ELSE IF f = "error" THEN "null" ELSE st[f]]

\* updateState: the fields of `updates` replace those of the state.
updateState(st, updates) ==
    [f \in DOMAIN st |-> IF f \in DOMAIN updates THEN updates[f] ELSE st[f]]

\* handleError that also reports the connection as lost.
handleErrorDisconnecting(st, code) ==
    updateState(st, [error |-> code, isConnecting |-> FALSE, isConnected |-> FALSE])

\* handleError: the error is recorded and isConnecting cleared.
handleError(st, code) ==
    updateState(st, [error |-> code, isConnecting |-> FALSE])

\* sendSubscriptionMessage: the frames written, none unless this.ws is open.
\* w is this.ws and rs the ready states when the call is made.
sendSubscriptionMessage(w, rs, type, productIds) ==
    IF w = 0 \/ rs[w] # "OPEN"
    THEN <<>>
    ELSE <<[to |-> w, type |-> type, product_ids |-> productIds,
            channel |-> CHANNEL]>>

\* onWire after the frames of a handler have been written: a subscribe frame
\* puts its products on the wire of its transport, an unsubscribe frame takes
\* them off.
Wired(wire, frames) ==
    IF frames = <<>> THEN wire
    ELSE LET pairs == {<<frames[1].to, p>> : p \in frames[1].product_ids}
         IN  IF frames[1].type = "subscribe" THEN wire \cup pairs
             ELSE wire \ pairs

\* The delay scheduleReconnection computes from the attempt counter.
ReconnectDelay(attempts) ==
    Min(RECONNECT_BASE_DELAY * Pow2(attempts), MAX_RECONNECT_DELAY)

(***************************************************************************)
(* connect(): nothing if this.ws is open; otherwise a new WebSocket is     *)
(* constructed and becomes this.ws.  The handlers of an earlier transport  *)
(* stay installed on it.  (The constructor throws only for a malformed     *)
(* URL, and WEBSOCKET_CONFIG.URL is well formed: the catch branch is not   *)
(* reachable.)  connectEffect is the body, shared with the timer callback; *)
(* cap bounds the WebSocket objects a behaviour constructs and calls the   *)
(* consumer's connect() and disconnect() calls.                            *)
(***************************************************************************)
connectGuard(cap) == (ws # 0 /\ readyState[ws] = "OPEN") \/ Created < cap

connectEffect ==
    IF ws # 0 /\ readyState[ws] = "OPEN"
    THEN UNCHANGED <<ws, state, readyState>>
    ELSE /\ state' = updateState(state, [isConnecting |-> TRUE, error |-> "null"])
         /\ ws' = Created + 1
         /\ readyState' = Append(readyState, "CONNECTING")

connect(cap, calls) ==
    /\ inTask = 0
    /\ consumerCalls < calls
    /\ connectGuard(cap)
    /\ connectEffect
    /\ consumerCalls' = consumerCalls + 1
    /\ exhausted' = FALSE
    /\ disconnected' = {}
    /\ sent' = <<>>
    /\ last' = [op |-> "connect"]
    /\ UNCHANGED <<reconnectAttempts, reconnectTimeoutId, established, inTask,
                   timers, timerSeq, scheduledSinceOpen, subVars, pureVars, cbVars, ctxVars, onWire>>

(***************************************************************************)
(* disconnect(): clears the timer this.reconnectTimeoutId names, closes    *)
(* this.ws with the normal-closure code and forgets it.  close() on a      *)
(* transport that is connecting or open makes it CLOSING; its close event  *)
(* is delivered later.  A timer that stays pending is marked stale: it was *)
(* set before this call.                                                   *)
(***************************************************************************)
disconnect(calls) ==
    /\ inTask = 0
    /\ consumerCalls < calls
    /\ timers' = {[tm EXCEPT !.stale = TRUE] :
                     tm \in {x \in timers : x.id # reconnectTimeoutId}}
    /\ reconnectTimeoutId' = 0
    /\ IF ws # 0 /\ readyState[ws] \in {"CONNECTING", "OPEN"}
       THEN /\ readyState' = [readyState EXCEPT ![ws] = "CLOSING"]
            /\ disconnected' = disconnected \cup {ws}
       ELSE UNCHANGED <<readyState, disconnected>>
    /\ ws' = 0
    /\ state' = updateState(state, [isConnected |-> FALSE, isConnecting |-> FALSE])
    /\ consumerCalls' = consumerCalls + 1
    /\ sent' = <<>>
    /\ last' = [op |-> "disconnect", closed |-> ws,
                pending |-> timers # {}]
    /\ UNCHANGED <<reconnectAttempts, established, inTask, timerSeq,
                   scheduledSinceOpen, exhausted, subVars, pureVars, cbVars, ctxVars, onWire>>

(***************************************************************************)
(* subscribeToProduct / unsubscribeFromProduct.                            *)
(***************************************************************************)
\* subscribeToProduct that stores no order book for a first subscriber.
subscribeWithoutOrderBook(productId) ==
    /\ inTask = 0
    /\ Count(productId) < MaxCount
    /\ subscriptionCounts' = MapSet(subscriptionCounts, productId, Count(productId) + 1)
    /\ IF Count(productId) = 0
       THEN /\ subscribedProducts' = subscribedProducts \cup {productId}
            /\ sent' = sendSubscriptionMessage(ws, readyState, "subscribe", {productId})
       ELSE /\ UNCHANGED subscribedProducts
            /\ sent' = <<>>
    /\ UNCHANGED orderBooks
    /\ last' = [op |-> "subscribe", productId |-> productId,
                previousCount |-> Count(productId)]
    /\ onWire' = Wired(onWire, sent')
    /\ UNCHANGED <<connVars, pureVars, cbVars, ctxVars>>

subscribeToProduct(productId) ==
    /\ inTask = 0
    /\ Count(productId) < MaxCount
    /\ subscriptionCounts' = MapSet(subscriptionCounts, productId, Count(productId) + 1)
    /\ IF Count(productId) = 0
       THEN /\ subscribedProducts' = subscribedProducts \cup {productId}
            /\ orderBooks' = MapSet(orderBooks, productId, EmptyOrderBook)
            /\ sent' = sendSubscriptionMessage(ws, readyState, "subscribe", {productId})
       ELSE /\ UNCHANGED <<subscribedProducts, orderBooks>>
            /\ sent' = <<>>
    /\ last' = [op |-> "subscribe", productId |-> productId,
                previousCount |-> Count(productId)]
    /\ onWire' = Wired(onWire, sent')
    /\ UNCHANGED <<connVars, pureVars, cbVars, ctxVars>>

\* unsubscribeFromProduct without the reference count: any call releases.
unsubscribeWithoutCount(productId) ==
    /\ inTask = 0
    /\ IF Count(productId) <= 0
       THEN /\ UNCHANGED subVars
            /\ sent' = <<>>
       ELSE /\ subscribedProducts' = subscribedProducts \ {productId}
            /\ orderBooks' = MapDelete(orderBooks, productId)
            /\ subscriptionCounts' = MapDelete(subscriptionCounts, productId)
            /\ sent' = sendSubscriptionMessage(ws, readyState, "unsubscribe", {productId})
    /\ last' = [op |-> "unsubscribe", productId |-> productId,
                previousCount |-> Count(productId)]
    /\ onWire' = Wired(onWire, sent')
    /\ UNCHANGED <<connVars, pureVars, cbVars, ctxVars>>

\* unsubscribeFromProduct without the test for a count that is not positive.
unsubscribeUnguarded(productId) ==
    /\ inTask = 0
    /\ IF Count(productId) - 1 = 0
       THEN /\ subscribedProducts' = subscribedProducts \ {productId}
            /\ orderBooks' = MapDelete(orderBooks, productId)
            /\ subscriptionCounts' = MapDelete(subscriptionCounts, productId)
            /\ sent' = sendSubscriptionMessage(ws, readyState, "unsubscribe", {productId})
       ELSE /\ subscriptionCounts' =
                   MapSet(subscriptionCounts, productId, Count(productId) - 1)
            /\ UNCHANGED <<subscribedProducts, orderBooks>>
            /\ sent' = <<>>
    /\ last' = [op |-> "unsubscribe", productId |-> productId,
                previousCount |-> Count(productId)]
    /\ onWire' = Wired(onWire, sent')
    /\ UNCHANGED <<connVars, pureVars, cbVars, ctxVars>>

unsubscribeFromProduct(productId) ==
    /\ inTask = 0
    /\ IF Count(productId) <= 0
       THEN /\ UNCHANGED subVars
            /\ sent' = <<>>
       ELSE IF Count(productId) - 1 = 0
       THEN /\ subscribedProducts' = subscribedProducts \ {productId}
            /\ orderBooks' = MapDelete(orderBooks, productId)
            /\ subscriptionCounts' = MapDelete(subscriptionCounts, productId)
            /\ sent' = sendSubscriptionMessage(ws, readyState, "unsubscribe", {productId})
       ELSE /\ subscriptionCounts' =
                   MapSet(subscriptionCounts, productId, Count(productId) - 1)
            /\ UNCHANGED <<subscribedProducts, orderBooks>>
            /\ sent' = <<>>
    /\ last' = [op |-> "unsubscribe", productId |-> productId,
                previousCount |-> Count(productId)]
    /\ onWire' = Wired(onWire, sent')
    /\ UNCHANGED <<connVars, pureVars, cbVars, ctxVars>>

(***************************************************************************)
(* addPriceUpdateCallback / removePriceUpdateCallback: Set.add leaves a    *)
(* Set that has the value as it is; Set.delete takes the value out.        *)
(***************************************************************************)
\* An add that does not look for the element.
SetAddAgain(set, x) == Append(set, x)

\* Set.add and Set.delete, on a set kept in insertion order.
SetAdd(set, x) ==
    IF \E i \in DOMAIN set : set[i] = x THEN set ELSE Append(set, x)

SetDelete(set, x) == SelectSeq(set, LAMBDA y : y # x)

addPriceUpdateCallback(callback) ==
    /\ inTask = 0
    /\ priceUpdateCallbacks' = SetAdd(priceUpdateCallbacks, callback)
    /\ removedCallbacks' = removedCallbacks \ {callback}
    /\ registeredTwice' =
          IF \E i \in DOMAIN priceUpdateCallbacks : priceUpdateCallbacks[i] = callback
          THEN registeredTwice \cup {callback}
          ELSE registeredTwice
    /\ sent' = <<>>
    /\ last' = [op |-> "addCallback", callback |-> callback]
    /\ UNCHANGED <<connVars, subVars, pureVars, ctxVars, onWire>>

removePriceUpdateCallback(callback) ==
    /\ inTask = 0
    /\ priceUpdateCallbacks' = SetDelete(priceUpdateCallbacks, callback)
    /\ removedCallbacks' = removedCallbacks \cup {callback}
    /\ registeredTwice' = registeredTwice \ {callback}
    /\ sent' = <<>>
    /\ last' = [op |-> "removeCallback", callback |-> callback]
    /\ UNCHANGED <<connVars, subVars, pureVars, ctxVars, onWire>>

(***************************************************************************)
(* handleOpen: the open event of transport t.  The browser has made t OPEN *)
(* before the handler runs; the handler writes to this.ws, whichever       *)
(* transport that is.                                                      *)
(***************************************************************************)
\* handleOpen that does not subscribe again.
handleOpenWithoutResubscribe(t) ==
    /\ inTask = 0
    /\ readyState[t] = "CONNECTING"
    /\ readyState' = [readyState EXCEPT ![t] = "OPEN"]
    /\ established' = established \cup {t}
    /\ state' = updateState(state, [isConnected |-> TRUE, isConnecting |-> FALSE])
    /\ reconnectAttempts' = 0
    /\ sent' = <<>>
    /\ scheduledSinceOpen' = 0
    /\ last' = [op |-> "open", t |-> t]
    /\ UNCHANGED <<ws, reconnectTimeoutId, inTask, timers, timerSeq, exhausted,
                   disconnected, consumerCalls, subVars, pureVars, cbVars,
                   ctxVars, onWire>>

handleOpen(t) ==
    /\ inTask = 0
    /\ readyState[t] = "CONNECTING"
    /\ readyState' = [readyState EXCEPT ![t] = "OPEN"]
    /\ established' = established \cup {t}
    /\ state' = updateState(state, [isConnected |-> TRUE, isConnecting |-> FALSE])
    /\ reconnectAttempts' = 0
    /\ sent' = IF subscribedProducts # {}
               THEN sendSubscriptionMessage(ws, readyState', "subscribe",
                                            subscribedProducts)
               ELSE <<>>
    /\ scheduledSinceOpen' = 0
    /\ last' = [op |-> "open", t |-> t]
    /\ onWire' = Wired(onWire, sent')
    /\ UNCHANGED <<ws, reconnectTimeoutId, inTask, timers, timerSeq, exhausted,
                   disconnected, consumerCalls, subVars, pureVars, cbVars,
                   ctxVars>>

(***************************************************************************)
(* handleMessage and the order-book handlers.  data is the payload:        *)
(* parses tells whether JSON.parse accepts it, and then channel and events *)
(* are its fields (events <<>> when the message has none).  An event is    *)
(* [product_id, type, updates].                                            *)
(***************************************************************************)
\* handleOrderBookSnapshot merging the snapshot into the order book it has.
snapshotMergedIntoBook(books, productId, updates) ==
    MapSet(books, productId,
           [bids |-> processOrderBookUpdates(books[productId].bids, updates, "bid"),
            asks |-> processOrderBookUpdates(books[productId].asks, updates, "offer"),
            lastUpdated |-> TRUE])

handleOrderBookSnapshot(books, productId, updates) ==
    LET snapshot == createOrderBookSnapshot(updates)
    IN  MapSet(books, productId,
               [bids |-> snapshot.bids, asks |-> snapshot.asks,
                lastUpdated |-> TRUE])

handleOrderBookUpdate(books, productId, updates) ==
    IF productId \notin DOMAIN books
    THEN books
    ELSE MapSet(books, productId,
                [bids |-> processOrderBookUpdates(books[productId].bids, updates, "bid"),
                 asks |-> processOrderBookUpdates(books[productId].asks, updates, "offer"),
                 lastUpdated |-> TRUE])

\* The callbacks a consumer may register.  What a callback does is the
\* consumer's: one of them throws whenever it is invoked.
Callbacks == {"cbA", "cbB", "cbThrows"}
Throws(callback) == callback = "cbThrows"

\* The callbacks the forEach of notifyPriceUpdate invokes, in order: all of
\* them, or those up to the first that throws, which ends the forEach.
InvokedOf(callbacks) ==
    LET throwing == {i \in DOMAIN callbacks : Throws(callbacks[i])}
    IN  IF throwing = {} THEN callbacks
        ELSE SubSeq(callbacks, 1, CHOOSE i \in throwing : \A j \in throwing : i <= j)

\* notifyPriceUpdate: the events emitted, the callback invocations made and
\* whether an exception leaves the method.  (The listeners of emit are run in
\* a try/catch of their own.)
notifyPriceUpdate(callbacks, productId, orderBook) ==
    LET midPrice == calculateMidPrice(orderBook)
    IN  IF midPrice = <<>>
        THEN [emitted |-> <<>>, invoked |-> <<>>, threw |-> FALSE]
        ELSE [emitted |-> <<[event |-> "price-update", productId |-> productId,
                             price |-> midPrice[1]]>>,
              invoked |-> [i \in DOMAIN InvokedOf(callbacks) |->
                             [callback |-> InvokedOf(callbacks)[i],
                              productId |-> productId, price |-> midPrice[1]]],
              threw |-> \E i \in DOMAIN callbacks : Throws(callbacks[i])]

\* A run of processOrderBookEvents: the order books so far, the events
\* emitted, the callback invocations, and whether an exception has ended it.
RunFrom(books) ==
    [books |-> books, emitted |-> <<>>, invoked |-> <<>>, threw |-> FALSE]

\* What follows the order-book handler of one event: the order book is
\* stored, order-book-update is emitted and notifyPriceUpdate runs.
Notified(run, books, productId) ==
    LET n == notifyPriceUpdate(priceUpdateCallbacks, productId, books[productId])
    IN  [books |-> books,
         emitted |-> run.emitted
                     \o <<[event |-> "order-book-update", productId |-> productId]>>
                     \o n.emitted,
         invoked |-> run.invoked \o n.invoked,
         threw |-> n.threw]

\* An event whose JSON has no updates field is a record without the field;
\* updates.filter then throws a TypeError, which ends the run.
HasUpdates(event) == "updates" \in DOMAIN event

Thrown(run) == [run EXCEPT !.threw = TRUE]

\* The body of the forEach without the test for a subscribed product.
ProcessEventUnfiltered(run, event) ==
    IF run.threw THEN run
    ELSE IF /\ ~HasUpdates(event)
            /\ \/ event.type = "snapshot"
               \/ event.type = "update" /\ event.product_id \in DOMAIN run.books
    THEN Thrown(run)
    ELSE IF event.type = "snapshot"
         THEN Notified(run,
                       handleOrderBookSnapshot(run.books, event.product_id,
                                               event.updates),
                       event.product_id)
    ELSE IF event.type = "update" /\ event.product_id \in DOMAIN run.books
         THEN Notified(run,
                       handleOrderBookUpdate(run.books, event.product_id,
                                             event.updates),
                       event.product_id)
    ELSE run

\* The body of the forEach of processOrderBookEvents, for one event; nothing
\* once an exception has ended the forEach.
ProcessEvent(run, event) ==
    IF run.threw THEN run
    ELSE IF event.product_id = "" \/ event.product_id \notin subscribedProducts
    THEN run
    ELSE IF /\ ~HasUpdates(event)
            /\ \/ event.type = "snapshot"
               \/ event.type = "update" /\ event.product_id \in DOMAIN run.books
    THEN Thrown(run)
    ELSE IF event.type = "snapshot"
         THEN Notified(run,
                       handleOrderBookSnapshot(run.books, event.product_id,
                                               event.updates),
                       event.product_id)
    ELSE IF event.type = "update" /\ event.product_id \in DOMAIN run.books
         THEN Notified(run,
                       handleOrderBookUpdate(run.books, event.product_id,
                                             event.updates),
                       event.product_id)
    ELSE run

RECURSIVE processOrderBookEvents(_, _)
processOrderBookEvents(run, events) ==
    IF events = <<>> THEN run
    ELSE processOrderBookEvents(ProcessEvent(run, Head(events)), Tail(events))

\* The events of a message that processOrderBookEvents handles for product p,
\* in order.
EventsFor(data, p) ==
    IF data.parses /\ data.channel = "l2_data"
    THEN SelectSeq(data.events, LAMBDA e : e.product_id = p)
    ELSE <<>>

LastOf(s) == s[Len(s)]

\* For each product given, the updates of the snapshot event that is the last
\* event of the message for the product, as a sequence of one element, or <<>>
\* where the message has no event for the product or ends with another.
SnapshotsOf(data, products) ==
    [p \in products |->
        IF /\ EventsFor(data, p) # <<>>
           /\ LastOf(EventsFor(data, p)).type = "snapshot"
           /\ HasUpdates(LastOf(EventsFor(data, p)))
        THEN <<LastOf(EventsFor(data, p)).updates>>
        ELSE <<>>]

\* The order books of an observer that keeps every level: after a snapshot
\* event the levels of the snapshot, after an update event what the updates
\* make of the levels before, each side in order and neither cut to a depth.
ReferenceAfter(reference, event) ==
    LET p == event.product_id
    IN  IF p \notin DOMAIN reference \/ ~HasUpdates(event) THEN reference
        ELSE IF event.type = "snapshot"
        THEN MapSet(reference, p,
                    <<[bids |-> sortOrderBookEntries(
                                   EntriesOf(OfSide(event.updates, "bid")), "bid"),
                       asks |-> sortOrderBookEntries(
                                   EntriesOf(OfSide(event.updates, "offer")),
                                   "offer")]>>)
        ELSE IF event.type = "update" /\ reference[p] # <<>>
        THEN MapSet(reference, p,
                    <<[bids |-> processWithoutDepth(reference[p][1].bids,
                                                    event.updates, "bid"),
                       asks |-> processWithoutDepth(reference[p][1].asks,
                                                    event.updates, "offer")]>>)
        ELSE reference

RECURSIVE ReferenceAfterAll(_, _)
ReferenceAfterAll(reference, events) ==
    IF events = <<>> THEN reference
    ELSE ReferenceAfterAll(ReferenceAfter(reference, Head(events)), Tail(events))

\* The provider's listener of order-book-update: the order book becomes
\* the entry of its product in state.orderBooks.
providerOrderBookUpdate(prev, productId, orderBook) ==
    MapSet(prev, productId, orderBook)

\* state.orderBooks of the provider after the order-book-update events of a
\* run: each carries the order book just stored, so that the last for a
\* product carries the order book the run ends with.
ContextAfter(prev, run) ==
    LET updated == {run.emitted[i].productId :
                       i \in {j \in DOMAIN run.emitted :
                                 run.emitted[j].event = "order-book-update"}}
    IN  [p \in DOMAIN prev \cup updated |->
            IF p \in updated
            THEN providerOrderBookUpdate(prev, p, run.books[p])[p]
            ELSE prev[p]]

\* The run of processOrderBookEvents that handleMessage makes for a payload:
\* none (the run that does nothing) unless the payload parses and is of the
\* l2_data channel.
RunOf(data) ==
    IF data.parses /\ data.channel = "l2_data"
    THEN processOrderBookEvents(RunFrom(orderBooks), data.events)
    ELSE RunFrom(orderBooks)

\* handleMessage: JSON.parse and the run are in one try block, so that an
\* exception of either is reported as PARSING_ERROR.
handleMessage(t, data) ==
    /\ inTask = 0
    /\ readyState[t] = "OPEN"
    /\ \E run \in {RunOf(data)} :
        /\ orderBooks' = run.books
        /\ state' = IF ~data.parses \/ run.threw
                    THEN handleError(state, "PARSING_ERROR")
                    ELSE state
        /\ sent' = <<>>
        /\ referenceBooks' = IF data.parses /\ data.channel = "l2_data"
                             THEN ReferenceAfterAll(referenceBooks, data.events)
                             ELSE referenceBooks
        /\ contextOrderBooks' =
              IF contextOrderBooks = <<>> THEN <<>>
              ELSE <<ContextAfter(contextOrderBooks[1], run)>>
        /\ last' = [op |-> "message", t |-> t,
                    parses |-> data.parses,
                    types |-> IF data.parses
                              THEN [i \in DOMAIN data.events |-> data.events[i].type]
                              ELSE <<>>,
                    products |-> IF data.parses /\ data.channel = "l2_data"
                                 THEN [i \in DOMAIN data.events |->
                                         data.events[i].product_id]
                                 ELSE <<>>,
                    afterError |-> state.error = "PARSING_ERROR",
                    snapshots |-> SnapshotsOf(data, subscribedProducts),
                    emitted |-> run.emitted,
                    invoked |-> run.invoked,
                    threw |-> run.threw]
        /\ UNCHANGED <<ws, reconnectAttempts, reconnectTimeoutId, readyState,
                       established, inTask, timers, timerSeq, scheduledSinceOpen,
                       exhausted, disconnected, consumerCalls, subscribedProducts,
                       subscriptionCounts, applyIn, applyOut, aggVars, cbVars,
                       ctxVars, onWire, channelToSubscription>>

(***************************************************************************)
(* handleWebSocketError: the error event of transport t.  The browser      *)
(* fires it when the connection fails, with t already CLOSED, and fires    *)
(* the close event next in the same task.                                  *)
(***************************************************************************)
\* handleWebSocketError that also reports the connection as lost.
handleWebSocketErrorDisconnecting(t) ==
    /\ inTask = 0
    /\ readyState[t] \in {"CONNECTING", "OPEN", "CLOSING"}
    /\ readyState' = [readyState EXCEPT ![t] = "CLOSED"]
    /\ inTask' = t
    /\ state' = updateState(handleError(state, "CONNECTION_FAILED"),
                            [isConnected |-> FALSE])
    /\ sent' = <<>>
    /\ last' = [op |-> "error", t |-> t]
    /\ UNCHANGED <<ws, reconnectAttempts, reconnectTimeoutId, established,
                   timers, timerSeq, scheduledSinceOpen, exhausted,
                   disconnected, consumerCalls, subVars, pureVars, cbVars, ctxVars, onWire>>

handleWebSocketError(t) ==
    /\ inTask = 0
    /\ readyState[t] \in {"CONNECTING", "OPEN", "CLOSING"}
    /\ readyState' = [readyState EXCEPT ![t] = "CLOSED"]
    /\ inTask' = t
    /\ state' = handleError(state, "CONNECTION_FAILED")
    /\ sent' = <<>>
    /\ last' = [op |-> "error", t |-> t]
    /\ UNCHANGED <<ws, reconnectAttempts, reconnectTimeoutId, established,
                   timers, timerSeq, scheduledSinceOpen, exhausted,
                   disconnected, consumerCalls, subVars, pureVars, cbVars, ctxVars, onWire>>

(***************************************************************************)
(* handleClose and scheduleReconnection.  closeEffect is the handler for a *)
(* close event with the given code; the timer it may set is pending until  *)
(* it fires or is cleared.                                                 *)
(***************************************************************************)
\* The test of handleClose without the closure code.
ShouldReconnectAnyCode(code, attempts) ==
    attempts < MAX_RECONNECT_ATTEMPTS

ShouldReconnect(code, attempts) ==
    code # NORMAL_CLOSURE_CODE /\ attempts < MAX_RECONNECT_ATTEMPTS

ShouldReport(code, attempts) ==
    /\ ~ShouldReconnect(code, attempts)
    /\ attempts >= MAX_RECONNECT_ATTEMPTS

closeEffect(t, code) ==
    /\ ws' = 0
    /\ IF ShouldReconnect(code, reconnectAttempts)
       THEN /\ state' = updateState(state, [isConnected |-> FALSE,
                                            isConnecting |-> FALSE])
            /\ timers' = timers \cup
                   {[id |-> timerSeq + 1,
                     delay |-> ReconnectDelay(reconnectAttempts),
                     nth |-> scheduledSinceOpen + 1,
                     stale |-> FALSE]}
            /\ timerSeq' = timerSeq + 1
            /\ reconnectTimeoutId' = timerSeq + 1
            /\ scheduledSinceOpen' = scheduledSinceOpen + 1
            /\ UNCHANGED exhausted
       ELSE IF ShouldReport(code, reconnectAttempts)
       THEN /\ state' = handleError(
                   updateState(state, [isConnected |-> FALSE,
                                       isConnecting |-> FALSE]),
                   "MAX_RECONNECT_ATTEMPTS")
            /\ exhausted' = (exhausted \/ code # NORMAL_CLOSURE_CODE)
            /\ UNCHANGED <<timers, timerSeq, reconnectTimeoutId, scheduledSinceOpen>>
       ELSE /\ state' = updateState(state, [isConnected |-> FALSE,
                                            isConnecting |-> FALSE])
            /\ UNCHANGED <<timers, timerSeq, reconnectTimeoutId,
                           scheduledSinceOpen, exhausted>>
    /\ last' = [op |-> "close", t |-> t, code |-> code,
                attempts |-> reconnectAttempts,
                byDisconnect |-> t \in disconnected,
                scheduled |-> timerSeq' # timerSeq,
                reported |-> ShouldReport(code, reconnectAttempts)]
    /\ sent' = <<>>
    /\ onWire' = {w \in onWire : w[1] # t}
    /\ UNCHANGED <<reconnectAttempts, established, disconnected, consumerCalls,
                   subVars, pureVars, cbVars, ctxVars>>

\* The close event that follows the error event of t: no close frame was
\* received, the code is 1006.
handleCloseAfterError(t) ==
    /\ inTask = t
    /\ inTask' = 0
    /\ closeEffect(t, ABNORMAL_CLOSURE_CODE)
    /\ UNCHANGED readyState

\* The close event of an established transport that closes without an error
\* event: after a closing handshake (the server's, or the one close() began),
\* or because the connection was lost (1006).
handleClose(t, code) ==
    /\ inTask = 0
    /\ t \in established
    /\ readyState[t] \in {"OPEN", "CLOSING"}
    /\ readyState' = [readyState EXCEPT ![t] = "CLOSED"]
    /\ closeEffect(t, code)
    /\ UNCHANGED inTask

(***************************************************************************)
(* The timer callback of scheduleReconnection: the attempt counter is      *)
(* incremented, then connect() runs.                                       *)
(***************************************************************************)
reconnectTimerFires(tm, cap) ==
    /\ inTask = 0
    /\ tm \in timers
    /\ connectGuard(cap)
    /\ timers' = timers \ {tm}
    /\ reconnectAttempts' = reconnectAttempts + 1
    /\ connectEffect
    /\ sent' = <<>>
    /\ last' = [op |-> "timer", id |-> tm.id, stale |-> tm.stale,
                wasExhausted |-> exhausted, constructed |-> ws' # ws]
    /\ UNCHANGED <<reconnectTimeoutId, established, inTask, timerSeq,
                   scheduledSinceOpen, exhausted, disconnected, consumerCalls,
                   subVars, pureVars, cbVars, ctxVars, onWire>>

(***************************************************************************)
(* Feed messages.                                                          *)
(***************************************************************************)
Upd(side, price, quantity) ==
    [side |-> side, price_level |-> price, new_quantity |-> quantity,
     exchange |-> ""]

Event(productId, type, updates) ==
    [product_id |-> productId, type |-> type, updates |-> updates]

L2(events) == [parses |-> TRUE, channel |-> "l2_data", events |-> events]

\* The snapshot of the scenario: bids 100.00/1 and 99.50/2, ask 100.50/1.
ScenarioSnapshot ==
    <<Upd("bid", "100.00", "1"), Upd("bid", "99.50", "2"),
      Upd("offer", "100.50", "1")>>

\* What the feed sends where the subscriptions are what is studied.
FewMessages ==
    {L2(<<Event(p, "snapshot", ScenarioSnapshot)>>) : p \in Products}

\* A snapshot of eleven levels a side, one more than the depth bound, the
\* bids listed from the lowest and the asks from the highest.
BidLadder ==
    <<"91.00", "92.00", "93.00", "94.00", "95.00", "96.00", "97.00", "98.00",
      "99.00", "99.50", "100.00">>
AskLadder ==
    <<"110.00", "109.00", "108.00", "107.00", "106.00", "105.00", "104.00",
      "103.00", "102.00", "101.00", "100.50">>
LadderSnapshot ==
    [i \in DOMAIN BidLadder |-> Upd("bid", BidLadder[i], "1")]
    \o [i \in DOMAIN AskLadder |-> Upd("offer", AskLadder[i], "1")]

\* A snapshot that names one price level twice.
DuplicateSnapshot ==
    <<Upd("bid", "100.00", "1"), Upd("bid", "100.00", "2"),
      Upd("offer", "100.50", "1")>>

\* The update batches of the feed: every single update of a few levels, and
\* batches that name a level more than once, by one string or by two.
BidLevels == {"90.00", "99.50", "100.0", "100.00", "100.20"}
AskLevels == {"100.50", "112.00"}
SingleUpdates ==
    {<<Upd("bid", p, q)>> : p \in BidLevels, q \in {"0", "1"}}
    \cup {<<Upd("offer", p, q)>> : p \in AskLevels, q \in {"0", "1"}}
    \cup {<<Upd("bid", "100.00", "2")>>}
ReplayBatch ==
    <<Upd("bid", "100.0", "0"), Upd("bid", "100.0", "1"),
      Upd("bid", "100.00", "1")>>
Batches ==
    SingleUpdates
    \cup {ReplayBatch,
          <<Upd("bid", "99.50", "1"), Upd("bid", "99.50", "0")>>,
          <<Upd("bid", "99.50", "0"), Upd("bid", "99.50", "3")>>,
          <<Upd("offer", "100.50", "0"), Upd("bid", "100.20", "1")>>,
          <<>>}

FeedProduct == "BTC-USD"

\* What the feed sends where the order book is what is studied.
FeedMessages ==
    {L2(<<Event(FeedProduct, "snapshot", u)>>) :
        u \in {ScenarioSnapshot, LadderSnapshot, DuplicateSnapshot, <<>>}}
    \cup {L2(<<Event(FeedProduct, "update", b)>>) : b \in Batches}
    \cup {L2(<<Event(FeedProduct, "snapshot", ScenarioSnapshot),
               Event(FeedProduct, "update", <<Upd("bid", "100.00", "0")>>)>>),
          L2(<<Event("ETH-USD", "snapshot", ScenarioSnapshot)>>),
          L2(<<>>),
          [parses |-> TRUE, channel |-> "subscriptions", events |-> <<>>],
          [parses |-> FALSE, channel |-> "", events |-> <<>>]}

(***************************************************************************)
(* The specification of the client.                                        *)
(***************************************************************************)
NoCall == [entries |-> <<>>, updates |-> <<>>, side |-> "bid"]

\* No callback is registered, no provider is mounted, and the price increment
\* is that of useState(0).
InitRest ==
    /\ priceUpdateCallbacks = <<>>
    /\ removedCallbacks = {}
    /\ registeredTwice = {}
    /\ isInitializedRef = FALSE
    /\ clientRef = 0
    /\ pendingOperationsRef = <<>>
    /\ submitted = <<>>
    /\ executed = <<>>
    /\ priceIncrement = 0
    /\ aggregatedOrderBook = <<>>
    /\ channelToSubscription = <<>>

\* The products an observer follows from the start.
InitObserved(products) ==
    /\ referenceBooks = [p \in products |-> <<>>]
    /\ contextOrderBooks = <<>>

Init ==
    /\ InitRest
    /\ InitObserved({})
    /\ onWire = {}
    /\ ws = 0
    /\ reconnectAttempts = 0
    /\ reconnectTimeoutId = 0
    /\ subscribedProducts = {}
    /\ subscriptionCounts = << >>
    /\ orderBooks = << >>
    /\ state = [isConnected |-> FALSE, isConnecting |-> FALSE, error |-> "null"]
    /\ readyState = <<>>
    /\ established = {}
    /\ inTask = 0
    /\ timers = {}
    /\ timerSeq = 0
    /\ sent = <<>>
    /\ last = [op |-> "new"]
    /\ scheduledSinceOpen = 0
    /\ exhausted = FALSE
    /\ disconnected = {}
    /\ consumerCalls = 0
    /\ applyIn = NoCall
    /\ applyOut = <<>>

Next ==
    \/ connect(MaxTransports, MaxConsumerCalls)
    \/ disconnect(MaxConsumerCalls)
    \/ \E p \in Products : subscribeToProduct(p)
    \/ \E p \in Products : unsubscribeFromProduct(p)
    \/ \E t \in Transports : handleOpen(t)
    \/ \E t \in Transports, data \in FewMessages : handleMessage(t, data)
    \/ \E t \in Transports : handleWebSocketError(t)
    \/ \E t \in Transports : handleCloseAfterError(t)
    \/ \E t \in Transports, code \in CloseCodes : handleClose(t, code)
    \/ \E tm \in timers : reconnectTimerFires(tm, MaxTransports)

Spec == Init /\ [][Next]_vars

(***************************************************************************)
(* The client with one reconnection, for the subscriptions: consumers come *)
(* and go while the transport connects, opens, closes and is replaced.     *)
(***************************************************************************)
NextSub ==
    \/ connect(MaxSubTransports, MaxSubCalls)
    \/ disconnect(MaxSubCalls)
    \/ \E p \in Products : subscribeToProduct(p)
    \/ \E p \in Products : unsubscribeFromProduct(p)
    \/ \E t \in Transports : handleOpen(t)
    \/ \E t \in Transports, data \in FewMessages : handleMessage(t, data)
    \/ \E t \in Transports : handleWebSocketError(t)
    \/ \E t \in Transports : handleCloseAfterError(t)
    \/ \E t \in Transports, code \in CloseCodes : handleClose(t, code)
    \/ \E tm \in timers : reconnectTimerFires(tm, MaxSubTransports)

SpecSub == Init /\ [][NextSub]_vars

(***************************************************************************)
(* The connection machine alone, for the reconnection policy: no product   *)
(* is subscribed, and enough transports for the retry budget to run out.   *)
(***************************************************************************)
NextRetry ==
    \/ connect(MaxRetryTransports, MaxRetryCalls)
    \/ disconnect(MaxRetryCalls)
    \/ \E t \in Transports : handleOpen(t)
    \/ \E t \in Transports : handleWebSocketError(t)
    \/ \E t \in Transports : handleCloseAfterError(t)
    \/ \E t \in Transports, code \in CloseCodes : handleClose(t, code)
    \/ \E tm \in timers : reconnectTimerFires(tm, MaxRetryTransports)

SpecRetry == Init /\ [][NextRetry]_vars

(***************************************************************************)
(* The connection machine of a consumer that calls connect() or            *)
(* disconnect() once, for what one close event does: the transports are    *)
(* enough for the attempt counter to reach MAX_RECONNECT_ATTEMPTS.         *)
(***************************************************************************)
NextPolicy ==
    \/ connect(MaxPolicyTransports, MaxPolicyCalls)
    \/ disconnect(MaxPolicyCalls)
    \/ \E t \in Transports : handleOpen(t)
    \/ \E t \in Transports : handleWebSocketError(t)
    \/ \E t \in Transports : handleCloseAfterError(t)
    \/ \E t \in Transports, code \in CloseCodes : handleClose(t, code)
    \/ \E tm \in timers : reconnectTimerFires(tm, MaxPolicyTransports)

SpecPolicy == Init /\ [][NextPolicy]_vars

(***************************************************************************)
(* The feed on an open connection: the state after connect(), the open     *)
(* event and subscribeToProduct("BTC-USD"), then the messages of the feed  *)
(* and the consumers coming and going.                                     *)
(***************************************************************************)
\* The client after connect(), subscribeToProduct(FeedProduct) and the open
\* event of its transport.
FeedClient ==
    /\ onWire = {<<1, FeedProduct>>}
    /\ ws = 1
    /\ reconnectAttempts = 0
    /\ reconnectTimeoutId = 0
    /\ subscribedProducts = {FeedProduct}
    /\ subscriptionCounts = MapSet(<< >>, FeedProduct, 1)
    /\ orderBooks = MapSet(<< >>, FeedProduct, EmptyOrderBook)
    /\ state = [isConnected |-> TRUE, isConnecting |-> FALSE, error |-> "null"]
    /\ readyState = <<"OPEN">>
    /\ established = {1}
    /\ inTask = 0
    /\ timers = {}
    /\ timerSeq = 0
    /\ sent = sendSubscriptionMessage(1, <<"OPEN">>, "subscribe", {FeedProduct})
    /\ last = [op |-> "subscribe", productId |-> FeedProduct, previousCount |-> 0]
    /\ scheduledSinceOpen = 0
    /\ exhausted = FALSE
    /\ disconnected = {}
    /\ consumerCalls = 1
    /\ applyIn = NoCall
    /\ applyOut = <<>>

InitFeed == InitRest /\ InitObserved({}) /\ FeedClient

NextFeed ==
    \/ \E t \in Transports, data \in FeedMessages : handleMessage(t, data)
    \/ subscribeToProduct(FeedProduct)
    \/ unsubscribeFromProduct(FeedProduct)

SpecFeed == InitFeed /\ [][NextFeed]_vars

(***************************************************************************)
(* processOrderBookUpdates as a function: a call on a side that is sorted, *)
(* has one entry a price string and at most the depth bound of entries,    *)
(* and the replay of the same batch on what the call returned.             *)
(***************************************************************************)
Ent(price, size) == [price |-> price, size |-> size, exchange |-> "Coinbase"]

\* The first n levels of a ladder, best first.
BestBids(n) == [i \in 1..n |-> Ent(BidLadder[Len(BidLadder) + 1 - i], "1")]
BestAsks(n) == [i \in 1..n |-> Ent(AskLadder[Len(AskLadder) + 1 - i], "1")]

StartSides(side) ==
    IF side = "bid"
    THEN {BestBids(n) : n \in 0..ORDER_BOOK_DEPTH}
         \cup {<<Ent("100.0", "1")>>, <<Ent("100.0", "2"), Ent("99.50", "1")>>}
    ELSE {BestAsks(n) : n \in 0..ORDER_BOOK_DEPTH}
         \cup {<<Ent("100.50", "2"), Ent("101.50", "1")>>}

\* Updates whose new_quantity is no number (parseFloat gives NaN): at a
\* price a start side holds, and at a price it may not hold.
InvalidSizeUpdates ==
    {<<Upd("bid", "100.0", "abc")>>, <<Upd("bid", "99.00", "")>>,
     <<Upd("offer", "100.50", "abc")>>, <<Upd("offer", "101.00", "")>>}

\* The batches of a call: those of the feed, every pair of single updates,
\* and the updates of an invalid size alone or after a single update.
CallBatches ==
    Batches \cup {a \o b : a \in SingleUpdates, b \in SingleUpdates}
            \cup InvalidSizeUpdates
            \cup {a \o b : a \in SingleUpdates, b \in InvalidSizeUpdates}

InitApply ==
    /\ InitRest
    /\ InitObserved({})
    /\ onWire = {}
    /\ ws = 0
    /\ reconnectAttempts = 0
    /\ reconnectTimeoutId = 0
    /\ subscribedProducts = {}
    /\ subscriptionCounts = << >>
    /\ orderBooks = << >>
    /\ state = [isConnected |-> FALSE, isConnecting |-> FALSE, error |-> "null"]
    /\ readyState = <<>>
    /\ established = {}
    /\ inTask = 0
    /\ timers = {}
    /\ timerSeq = 0
    /\ sent = <<>>
    /\ last = [op |-> "new"]
    /\ scheduledSinceOpen = 0
    /\ exhausted = FALSE
    /\ disconnected = {}
    /\ consumerCalls = 0
    /\ \E side \in {"bid", "offer"} :
         \E entries \in StartSides(side), updates \in CallBatches :
            applyIn = [entries |-> entries, updates |-> updates, side |-> side]
    /\ applyOut = <<>>

\* The call.
ApplyOnce ==
    /\ applyOut = <<>>
    /\ applyOut' = <<processOrderBookUpdates(applyIn.entries, applyIn.updates,
                                             applyIn.side)>>
    /\ UNCHANGED <<connVars, subVars, cbVars, ctxVars, onWire, applyIn, aggVars,
                   referenceBooks, contextOrderBooks,
                   channelToSubscription, sent, last>>

\* The replay of the batch on what the call returned.
ApplyAgain ==
    /\ Len(applyOut) = 1
    /\ applyOut' = Append(applyOut,
                          processOrderBookUpdates(applyOut[1], applyIn.updates,
                                                  applyIn.side))
    /\ UNCHANGED <<connVars, subVars, cbVars, ctxVars, onWire, applyIn, aggVars,
                   referenceBooks, contextOrderBooks,
                   channelToSubscription, sent, last>>

NextApply == ApplyOnce \/ ApplyAgain

SpecApply == InitApply /\ [][NextApply]_vars

(***************************************************************************)
(* Reference counting of subscriptions.                                    *)
(***************************************************************************)
\* An unsubscribe frame for p is among those the step wrote.
UnsubscribeSent(p) ==
    \E i \in DOMAIN sent' :
        sent'[i].type = "unsubscribe" /\ p \in sent'[i].product_ids

\* The step takes the count of p from 1 to 0.
Released(p) == Count(p) = 1 /\ CountIn(subscriptionCounts', p) = 0

\* While the count of p stays positive p stays subscribed and a subscribe or
\* unsubscribe call leaves its order book as it was; the order book and the
\* count entry go exactly when the count goes from 1 to 0.
Retained(p) ==
    /\ CountIn(subscriptionCounts', p) >= 1 =>
          /\ p \in subscribedProducts'
          /\ p \in DOMAIN orderBooks'
          /\ ~UnsubscribeSent(p)
    /\ (Count(p) >= 1 /\ CountIn(subscriptionCounts', p) >= 1
        /\ last'.op \in {"subscribe", "unsubscribe"}) =>
          orderBooks'[p] = orderBooks[p]
    /\ (p \in DOMAIN orderBooks /\ p \notin DOMAIN orderBooks') <=> Released(p)
    /\ (p \in DOMAIN subscriptionCounts /\ p \notin DOMAIN subscriptionCounts')
          <=> Released(p)
    /\ (p \in subscribedProducts /\ p \notin subscribedProducts') <=> Released(p)

\* C1 as stated: a product stays subscribed, its order book retained and no
\* unsubscribe frame written, while its count is positive; the unsubscribe
\* frame is written, and the order book and count entry discarded, exactly
\* when the count goes from 1 to 0.
ctr_C1 ==
    [][\A p \in Products :
          /\ Retained(p)
          /\ UnsubscribeSent(p) <=> Released(p)]_vars

\* C1 as amended: a product stays subscribed, its order book retained and no
\* unsubscribe frame written, while its count is positive; the order book and
\* the count entry are discarded exactly when the count goes from 1 to 0; an
\* unsubscribe frame is written only then, and then exactly if this.ws is an
\* open transport (no frame is written when it is not).
thm_C1 ==
    [][\A p \in Products :
          /\ Retained(p)
          /\ UnsubscribeSent(p) => Released(p)
          /\ Released(p) =>
                (UnsubscribeSent(p) <=> (ws # 0 /\ readyState[ws] = "OPEN"))]_vars

\* subscribe, subscribe, unsubscribe on an open connection, a snapshot having
\* filled the order book: the product is still subscribed, its order book is
\* intact and no frame was written.
wit_C1 ==
    /\ last.op = "unsubscribe"
    /\ last.previousCount = 2
    /\ last.productId = "BTC-USD"
    /\ Count("BTC-USD") = 1
    /\ "BTC-USD" \in subscribedProducts
    /\ orderBooks["BTC-USD"].bids # <<>>
    /\ ws # 0 /\ readyState[ws] = "OPEN"
    /\ sent = <<>>

(***************************************************************************)
(* Resubscription on open.                                                 *)
(***************************************************************************)
\* C2: whenever a transport opens, the handler writes exactly one subscribe
\* frame naming exactly the subscribed products if there is one, and nothing
\* if there is none.
ctr_C2 ==
    last.op = "open" =>
        IF subscribedProducts # {}
        THEN /\ Len(sent) = 1
             /\ sent[1].type = "subscribe"
             /\ sent[1].product_ids = subscribedProducts
        ELSE sent = <<>>

(***************************************************************************)
(* Snapshots and updates of the order book.                                *)
(***************************************************************************)
\* a is at least as good a price as b on the side: higher for a bid, lower
\* for an ask.
AsGoodAs(a, b, side) ==
    IF side = "bid"
    THEN ParseFloat(a.price) >= ParseFloat(b.price)
    ELSE ParseFloat(a.price) <= ParseFloat(b.price)

Ordered(entries, side) ==
    \A i \in 1..(Len(entries) - 1) : AsGoodAs(entries[i], entries[i + 1], side)

Occurrences(entries, x) == Cardinality({i \in DOMAIN entries : entries[i] = x})

Range(entries) == {entries[i] : i \in DOMAIN entries}

\* x is not among the best ORDER_BOOK_DEPTH that kept make up.
BeyondDepth(kept, x, side) ==
    Len(kept) = ORDER_BOOK_DEPTH /\ AsGoodAs(kept[ORDER_BOOK_DEPTH], x, side)

\* kept is the best ORDER_BOOK_DEPTH of the entries given, best first.
BestOf(kept, given, side) ==
    /\ Ordered(kept, side)
    /\ Len(kept) = Min(Len(given), ORDER_BOOK_DEPTH)
    /\ \A x \in Range(kept) : Occurrences(kept, x) <= Occurrences(given, x)
    /\ \A x \in Range(given) :
          Occurrences(kept, x) < Occurrences(given, x) => BeyondDepth(kept, x, side)

\* C3: once a message whose last event for a subscribed product is a snapshot
\* has been handled, the bids of the product are the bid entries of the event,
\* highest price first, and its asks the offer entries, lowest price first,
\* each cut to the depth bound, whatever the order book held before.
thm_C3 ==
    last.op = "message" =>
       \A p \in DOMAIN last.snapshots :
          last.snapshots[p] # <<>> =>
             LET updates == last.snapshots[p][1]
             IN  /\ BestOf(orderBooks[p].bids,
                           EntriesOf(OfSide(updates, "bid")), "bid")
                 /\ BestOf(orderBooks[p].asks,
                           EntriesOf(OfSide(updates, "offer")), "offer")
                 /\ orderBooks[p].lastUpdated

\* The snapshot of the scenario has been handled: the order book holds its
\* two bids and its ask, and the mid-price is 100.25.
wit_C3 ==
    /\ last.op = "message"
    /\ FeedProduct \in subscribedProducts
    /\ last.snapshots[FeedProduct] = <<ScenarioSnapshot>>
    /\ orderBooks[FeedProduct].bids = <<Ent("100.00", "1"), Ent("99.50", "2")>>
    /\ orderBooks[FeedProduct].asks = <<Ent("100.50", "1")>>
    /\ calculateMidPrice(orderBooks[FeedProduct]) = <<10025>>

\* The entries of a side at a price string.
AtPrice(entries, price) == {x \in Range(entries) : x.price = price}

\* What the updates of a batch leave at each price string of a side: after a
\* last update of quantity zero no entry, after a last update of another
\* quantity the entry of that update (unless the depth bound cuts it), and
\* what was there where the batch has no update of the side at the price
\* (unless the depth bound cuts it).
LevelsFollow(before, updates, after, side) ==
    LET mine == OfSide(updates, side)
        prices == {x.price : x \in Range(before) \cup Range(after)}
                  \cup {mine[i].price_level : i \in DOMAIN mine}
    IN  \A q \in prices :
           LET at == {i \in DOMAIN mine : mine[i].price_level = q}
           IN  IF at = {}
               THEN /\ AtPrice(after, q) \subseteq AtPrice(before, q)
                    /\ \A x \in AtPrice(before, q) \ AtPrice(after, q) :
                          BeyondDepth(after, x, side)
               ELSE LET u == mine[CHOOSE i \in at : \A j \in at : j <= i]
                    IN  IF ParsesToZero(u.new_quantity)
                        THEN AtPrice(after, q) = {}
                        ELSE /\ AtPrice(after, q) \subseteq {EntryOf(u)}
                             /\ AtPrice(after, q) = {} =>
                                   BeyondDepth(after, EntryOf(u), side)

\* C4: once an update event for a subscribed product has been handled, each
\* side holds what its updates, applied in order, leave: an update of
\* quantity "0" removes the entry at its price, another replaces the entry at
\* its price or adds one, and the updates of the other side change nothing.
ctr_C4 ==
    [][\A t \in Transports, data \in FeedMessages :
          handleMessage(t, data) =>
             \A p \in subscribedProducts :
                (Len(EventsFor(data, p)) = 1
                 /\ EventsFor(data, p)[1].type = "update"
                 /\ p \in DOMAIN orderBooks) =>
                   LET updates == EventsFor(data, p)[1].updates
                   IN  /\ LevelsFollow(orderBooks[p].bids, updates,
                                       orderBooks'[p].bids, "bid")
                       /\ LevelsFollow(orderBooks[p].asks, updates,
                                       orderBooks'[p].asks, "offer")]_vars

\* C5: each side of the order book of each subscribed product is in order,
\* bids from the highest price and asks from the lowest, and holds at most
\* ORDER_BOOK_DEPTH entries.
thm_C5 ==
    \A p \in subscribedProducts :
       /\ Ordered(orderBooks[p].bids, "bid")
       /\ Ordered(orderBooks[p].asks, "offer")
       /\ Len(orderBooks[p].bids) <= ORDER_BOOK_DEPTH
       /\ Len(orderBooks[p].asks) <= ORDER_BOOK_DEPTH

\* An update has added a best bid to a full side: the side is still at the
\* depth bound, the new bid first and the lowest of the ladder gone.
wit_C5 ==
    /\ last.op = "message"
    /\ last.types = <<"update">>
    /\ FeedProduct \in DOMAIN orderBooks
    /\ Len(orderBooks[FeedProduct].bids) = ORDER_BOOK_DEPTH
    /\ orderBooks[FeedProduct].bids[1].price = "100.20"
    /\ orderBooks[FeedProduct].bids[ORDER_BOOK_DEPTH].price = "93.00"
    /\ Len(orderBooks[FeedProduct].asks) = ORDER_BOOK_DEPTH

\* C6: the replay of a batch on what its application returned returns the
\* same side.
ctr_C6 ==
    Len(applyOut) = 2 => applyOut[2] = applyOut[1]

(***************************************************************************)
(* Reconnection and disconnect().                                          *)
(***************************************************************************)
\* C7: the reconnection that the Nth abnormal closure since the last open (or
\* since construction) schedules has the delay
\* min(RECONNECT_BASE_DELAY * 2^(N-1), MAX_RECONNECT_DELAY), and each retry,
\* the firing of a reconnection timer, advances the attempt counter by one.
ctr_C7 ==
    [][/\ \A tm \in timers' \ timers :
             tm.delay = Min(RECONNECT_BASE_DELAY * Pow2(tm.nth - 1),
                            MAX_RECONNECT_DELAY)
       /\ last'.op = "timer" => reconnectAttempts' = reconnectAttempts + 1]_vars

\* C8: an abnormal closure with the attempt counter at MAX_RECONNECT_ATTEMPTS
\* reports MAX_RECONNECT_ATTEMPTS and schedules nothing; an abnormal closure
\* (1006) with the counter at 0 schedules a reconnection at the base delay;
\* and once the budget is exhausted no reconnection timer makes a transport
\* before a consumer calls connect().
ctr_C8 ==
    /\ (last.op = "close" /\ last.code # NORMAL_CLOSURE_CODE
        /\ last.attempts = MAX_RECONNECT_ATTEMPTS) =>
          /\ last.reported
          /\ ~last.scheduled
          /\ state.error = "MAX_RECONNECT_ATTEMPTS"
    /\ (last.op = "close" /\ last.code = ABNORMAL_CLOSURE_CODE
        /\ last.attempts = 0) =>
          /\ last.scheduled
          /\ \E tm \in timers :
                tm.id = reconnectTimeoutId /\ tm.delay = RECONNECT_BASE_DELAY
    /\ (last.op = "timer" /\ last.wasExhausted) => ~last.constructed

\* C9: once disconnect() has returned no reconnection timer is pending, and
\* the connection state reports isConnected = false and isConnecting = false.
ctr_C9 ==
    last.op = "disconnect" =>
       /\ timers = {}
       /\ ~state.isConnected
       /\ ~state.isConnecting

\* C10: the close event of a transport that disconnect() closed schedules no
\* reconnection.
ctr_C10 ==
    (last.op = "close" /\ last.byDisconnect) => ~last.scheduled

(***************************************************************************)
(* Price updates: an open connection with BTC-USD subscribed, consumers    *)
(* that register and remove callbacks and come and go, and a feed of a     *)
(* few messages: snapshots that fill both sides or none, updates that      *)
(* empty a side or change the best bid, a message of two events, an event  *)
(* of a product nobody subscribed, and a payload that does not parse.      *)
(***************************************************************************)
NotifyMessages ==
    {L2(<<Event(FeedProduct, "snapshot", ScenarioSnapshot)>>),
     L2(<<Event(FeedProduct, "snapshot", <<>>)>>),
     L2(<<Event(FeedProduct, "update", <<Upd("offer", "100.50", "0")>>)>>),
     L2(<<Event(FeedProduct, "update", <<Upd("bid", "100.20", "1")>>)>>),
     L2(<<Event(FeedProduct, "snapshot", ScenarioSnapshot),
          Event(FeedProduct, "update", <<Upd("bid", "100.20", "1")>>)>>),
     L2(<<Event("ETH-USD", "snapshot", ScenarioSnapshot)>>),
     [parses |-> FALSE, channel |-> "", events |-> <<>>]}

NextNotify ==
    \/ \E t \in Transports, data \in NotifyMessages : handleMessage(t, data)
    \/ \E callback \in Callbacks : addPriceUpdateCallback(callback)
    \/ \E callback \in Callbacks : removePriceUpdateCallback(callback)
    \/ subscribeToProduct(FeedProduct)
    \/ unsubscribeFromProduct(FeedProduct)

SpecNotify == InitFeed /\ [][NextNotify]_vars

(***************************************************************************)
(* Price-update notifications.                                             *)
(***************************************************************************)
\* The positions of a sequence whose element satisfies a test.
Where(s, Test(_)) == {i \in DOMAIN s : Test(s[i])}

\* The price-update events the last message emitted for product p.
PriceUpdates(p) ==
    Where(last.emitted, LAMBDA e : e.event = "price-update" /\ e.productId = p)

\* The invocations of a callback with (p, price) by the last message.
Invocations(callback, p, price) ==
    Where(last.invoked, LAMBDA v : v = [callback |-> callback, productId |-> p,
                                        price |-> price])

Registered == {priceUpdateCallbacks[i] : i \in DOMAIN priceUpdateCallbacks}

\* The last step handled a message of one event, for a subscribed product.
OneEventHandled(p) ==
    /\ last.op = "message"
    /\ last.products = <<p>>
    /\ p \in subscribedProducts

BothSides(orderBook) == orderBook.bids # <<>> /\ orderBook.asks # <<>>

\* (bestBid + bestAsk) / 2, in hundredths.
MeanOfBest(orderBook) ==
    (ParseFloat(orderBook.bids[1].price) + ParseFloat(orderBook.asks[1].price)) \div 2

\* C11: once a snapshot or update event for a subscribed product has been
\* handled, the mid-price is unavailable exactly if a side of the order book
\* is empty; if both sides have entries one price-update event has been
\* emitted and every registered callback invoked exactly once, with the
\* product and (bestBid + bestAsk) / 2; otherwise no price-update event has
\* been emitted and no callback invoked.
ctr_C11 ==
    \A p \in Products :
       OneEventHandled(p) =>
          /\ (calculateMidPrice(orderBooks[p]) = <<>>) <=> ~BothSides(orderBooks[p])
          /\ IF BothSides(orderBooks[p])
             THEN /\ Cardinality(PriceUpdates(p)) = 1
                  /\ \A i \in PriceUpdates(p) :
                        last.emitted[i].price = MeanOfBest(orderBooks[p])
                  /\ \A callback \in Registered :
                        Cardinality(Invocations(callback, p,
                                                MeanOfBest(orderBooks[p]))) = 1
                  /\ Len(last.invoked) = Cardinality(Registered)
             ELSE /\ PriceUpdates(p) = {}
                  /\ last.invoked = <<>>

\* The events of the last message that processOrderBookEvents has to handle:
\* those of a subscribed product.
EventsToHandle ==
    Where(last.products, LAMBDA p : p \in subscribedProducts)

\* C12: a price-update callback that throws changes nothing else: every
\* registered callback is invoked for every price-update event emitted, every
\* event of the message is handled, and the connection state, its error field
\* included, is what it was.
ctr_C12 ==
    [][(last'.op = "message" /\ last'.parses) =>
          /\ \A i \in Where(last'.emitted, LAMBDA e : e.event = "price-update") :
                \A callback \in Registered :
                   \E j \in DOMAIN last'.invoked :
                      last'.invoked[j] =
                         [callback |-> callback,
                          productId |-> last'.emitted[i].productId,
                          price |-> last'.emitted[i].price]
          /\ Cardinality(Where(last'.emitted,
                               LAMBDA e : e.event = "order-book-update"))
                = Cardinality({i \in DOMAIN last'.products :
                                  last'.products[i] \in subscribedProducts})
          /\ state' = state
          /\ UNCHANGED <<subscribedProducts, subscriptionCounts>>]_vars

(***************************************************************************)
(* The context layer (WebSocketProvider).  Its effect constructs a client, *)
(* connects it and runs the operations that were queued; its cleanup       *)
(* disconnects the client.  Consumers reach the client through             *)
(* executeWhenReady, before the effect has run, while the provider is      *)
(* set up and after its cleanup.  An operation is [kind, arg]: subscribe   *)
(* and unsubscribe of a product, addCallback and removeCallback of a       *)
(* callback.  The client of the model is clientRef.current; the transports *)
(* and timers of a client the provider left behind are not followed.       *)
(***************************************************************************)
MaxOperations == 4   \* operations passed to executeWhenReady
MaxMounts     == 2   \* runs of the provider's effect

Operation(kind, arg) == [kind |-> kind, arg |-> arg]

Operations ==
    {Operation(k, FeedProduct) : k \in {"subscribe", "unsubscribe"}}
    \cup {Operation(k, "cbA") : k \in {"addCallback", "removeCallback"}}

\* The part of the client an operation reads and writes, and the frames
\* written so far by the handler that runs the operations.
ClientPart ==
    [subscribedProducts |-> subscribedProducts,
     subscriptionCounts |-> subscriptionCounts,
     orderBooks |-> orderBooks,
     priceUpdateCallbacks |-> priceUpdateCallbacks,
     frames |-> <<>>]

NewClientPart ==
    [subscribedProducts |-> {}, subscriptionCounts |-> << >>,
     orderBooks |-> << >>, priceUpdateCallbacks |-> <<>>, frames |-> <<>>]

\* RunOperation whose subscribe does not count a subscriber after the first.
RunOperationUncounted(c, op, w, rs) ==
    LET count == CountIn(c.subscriptionCounts, op.arg)
    IN  CASE op.kind = "subscribe" ->
               IF count = 0
               THEN [c EXCEPT
                       !.subscriptionCounts = MapSet(@, op.arg, 1),
                       !.subscribedProducts = @ \cup {op.arg},
                       !.orderBooks = MapSet(@, op.arg, EmptyOrderBook),
                       !.frames = @ \o sendSubscriptionMessage(w, rs, "subscribe",
                                                               {op.arg})]
               ELSE c
          [] op.kind = "unsubscribe" ->
               IF count <= 0 THEN c
               ELSE IF count - 1 = 0
               THEN [c EXCEPT
                       !.subscriptionCounts = MapDelete(@, op.arg),
                       !.subscribedProducts = @ \ {op.arg},
                       !.orderBooks = MapDelete(@, op.arg),
                       !.frames = @ \o sendSubscriptionMessage(w, rs, "unsubscribe",
                                                               {op.arg})]
               ELSE [c EXCEPT !.subscriptionCounts = MapSet(@, op.arg, count - 1)]
          [] op.kind = "addCallback" ->
               [c EXCEPT !.priceUpdateCallbacks = SetAdd(@, op.arg)]
          [] op.kind = "removeCallback" ->
               [c EXCEPT !.priceUpdateCallbacks = SetDelete(@, op.arg)]

\* One operation run on the client: the method of the client it calls, w
\* being this.ws and rs the ready states.
RunOperation(c, op, w, rs) ==
    LET count == CountIn(c.subscriptionCounts, op.arg)
    IN  CASE op.kind = "subscribe" ->
               IF count = 0
               THEN [c EXCEPT
                       !.subscriptionCounts = MapSet(@, op.arg, 1),
                       !.subscribedProducts = @ \cup {op.arg},
                       !.orderBooks = MapSet(@, op.arg, EmptyOrderBook),
                       !.frames = @ \o sendSubscriptionMessage(w, rs, "subscribe",
                                                               {op.arg})]
               ELSE [c EXCEPT !.subscriptionCounts = MapSet(@, op.arg, count + 1)]
          [] op.kind = "unsubscribe" ->
               IF count <= 0 THEN c
               ELSE IF count - 1 = 0
               THEN [c EXCEPT
                       !.subscriptionCounts = MapDelete(@, op.arg),
                       !.subscribedProducts = @ \ {op.arg},
                       !.orderBooks = MapDelete(@, op.arg),
                       !.frames = @ \o sendSubscriptionMessage(w, rs, "unsubscribe",
                                                               {op.arg})]
               ELSE [c EXCEPT !.subscriptionCounts = MapSet(@, op.arg, count - 1)]
          [] op.kind = "addCallback" ->
               [c EXCEPT !.priceUpdateCallbacks = SetAdd(@, op.arg)]
          [] op.kind = "removeCallback" ->
               [c EXCEPT !.priceUpdateCallbacks = SetDelete(@, op.arg)]

\* operations.forEach((operation) => operation())
RECURSIVE RunOperations(_, _, _, _)
RunOperations(c, ops, w, rs) ==
    IF ops = <<>> THEN c
    ELSE RunOperations(RunOperation(c, Head(ops), w, rs), Tail(ops), w, rs)

\* The operations as the log keeps them: with the client that ran them, and
\* whether they had been queued.
RunBy(client, ops, queued) ==
    [i \in DOMAIN ops |-> [op |-> ops[i], client |-> client, queued |-> queued]]

\* The client takes the values of c.
ClientBecomes(c) ==
    /\ subscribedProducts' = c.subscribedProducts
    /\ subscriptionCounts' = c.subscriptionCounts
    /\ orderBooks' = c.orderBooks
    /\ priceUpdateCallbacks' = c.priceUpdateCallbacks

\* The provider's effect: a new client, connect(), then the queue.
initEffect ==
    /\ inTask = 0
    /\ ~isInitializedRef
    /\ clientRef < MaxMounts
    /\ clientRef' = clientRef + 1
    /\ ws' = 1
    /\ readyState' = <<"CONNECTING">>
    /\ state' = [isConnected |-> FALSE, isConnecting |-> TRUE, error |-> "null"]
    /\ reconnectAttempts' = 0
    /\ reconnectTimeoutId' = 0
    /\ established' = {}
    /\ timers' = {}
    /\ timerSeq' = 0
    /\ scheduledSinceOpen' = 0
    /\ exhausted' = FALSE
    /\ disconnected' = {}
    /\ onWire' = {}
    /\ isInitializedRef' = TRUE
    /\ pendingOperationsRef' = <<>>
    /\ ClientBecomes(RunOperations(NewClientPart, pendingOperationsRef, 1,
                                   <<"CONNECTING">>))
    /\ executed' = executed \o RunBy(clientRef + 1, pendingOperationsRef, TRUE)
    /\ removedCallbacks' = {}
    /\ registeredTwice' = {}
    /\ sent' = <<>>
    /\ last' = [op |-> "initEffect", flushed |-> Len(pendingOperationsRef)]
    /\ UNCHANGED <<inTask, consumerCalls, submitted, pureVars>>

\* The cleanup of the effect: client.disconnect(), then the flag is cleared.
cleanupEffect ==
    /\ inTask = 0
    /\ isInitializedRef
    /\ timers' = {[tm EXCEPT !.stale = TRUE] :
                     tm \in {x \in timers : x.id # reconnectTimeoutId}}
    /\ reconnectTimeoutId' = 0
    /\ IF ws # 0 /\ readyState[ws] \in {"CONNECTING", "OPEN"}
       THEN /\ readyState' = [readyState EXCEPT ![ws] = "CLOSING"]
            /\ disconnected' = disconnected \cup {ws}
       ELSE UNCHANGED <<readyState, disconnected>>
    /\ ws' = 0
    /\ state' = updateState(state, [isConnected |-> FALSE, isConnecting |-> FALSE])
    /\ isInitializedRef' = FALSE
    /\ sent' = <<>>
    /\ last' = [op |-> "cleanupEffect"]
    /\ UNCHANGED <<reconnectAttempts, established, inTask, timerSeq,
                   scheduledSinceOpen, exhausted, consumerCalls, subVars,
                   pureVars, cbVars, onWire, clientRef, pendingOperationsRef,
                   submitted, executed>>

\* executeWhenReady that forgets the operation when the client is not ready.
executeIfReady(op) ==
    /\ inTask = 0
    /\ Len(submitted) < MaxOperations
    /\ submitted' = Append(submitted, op)
    /\ IF isInitializedRef /\ clientRef # 0
       THEN /\ ClientBecomes(RunOperation(ClientPart, op, ws, readyState))
            /\ sent' = RunOperation(ClientPart, op, ws, readyState).frames
            /\ executed' = executed \o RunBy(clientRef, <<op>>, FALSE)
       ELSE /\ UNCHANGED <<subVars, priceUpdateCallbacks, executed>>
            /\ sent' = <<>>
    /\ onWire' = Wired(onWire, sent')
    /\ last' = [op |-> "executeWhenReady", operation |-> op,
                ready |-> isInitializedRef /\ clientRef # 0]
    /\ UNCHANGED <<connVars, pureVars, removedCallbacks, registeredTwice,
                   isInitializedRef, clientRef, pendingOperationsRef>>

\* executeWhenReady(operation), operation being one of the four the context
\* makes: run at once if the provider is set up, queued otherwise.
executeWhenReady(op) ==
    /\ inTask = 0
    /\ Len(submitted) < MaxOperations
    /\ submitted' = Append(submitted, op)
    /\ IF isInitializedRef /\ clientRef # 0
       THEN /\ ClientBecomes(RunOperation(ClientPart, op, ws, readyState))
            /\ sent' = RunOperation(ClientPart, op, ws, readyState).frames
            /\ executed' = executed \o RunBy(clientRef, <<op>>, FALSE)
            /\ UNCHANGED pendingOperationsRef
       ELSE /\ pendingOperationsRef' = Append(pendingOperationsRef, op)
            /\ UNCHANGED <<subVars, priceUpdateCallbacks, executed>>
            /\ sent' = <<>>
    /\ onWire' = Wired(onWire, sent')
    /\ last' = [op |-> "executeWhenReady", operation |-> op,
                ready |-> isInitializedRef /\ clientRef # 0]
    /\ UNCHANGED <<connVars, pureVars, removedCallbacks, registeredTwice,
                   isInitializedRef, clientRef>>

NextProvider ==
    \/ initEffect
    \/ cleanupEffect
    \/ \E op \in Operations : executeWhenReady(op)
    \/ \E t \in Transports : handleOpen(t)

SpecProvider == Init /\ [][NextProvider]_vars

\* The operations of a log, without the clients.
OperationsOf(log) == [i \in DOMAIN log |-> log[i].op]

\* The callbacks a sequence of operations leaves registered on a new client:
\* those whose last addCallback or removeCallback is an addCallback.
LeftRegistered(ops) ==
    {cb \in {ops[i].arg : i \in DOMAIN ops} :
        \E i \in DOMAIN ops :
           /\ ops[i] = Operation("addCallback", cb)
           /\ \A j \in (i + 1)..Len(ops) : ops[j] # Operation("removeCallback", cb)}

\* The reference count a sequence of operations leaves for p on a new client.
RECURSIVE LeftCount(_, _, _)
LeftCount(ops, p, n) ==
    IF ops = <<>> THEN n
    ELSE LeftCount(Tail(ops), p,
                   IF Head(ops) = Operation("subscribe", p) THEN n + 1
                   ELSE IF Head(ops) = Operation("unsubscribe", p) /\ n > 0 THEN n - 1
                   ELSE n)

\* C13: the operations run on a client, followed by those still queued, are
\* the operations submitted, in the order of submission: none is lost, none
\* run twice.  Nothing is queued while the provider is set up, and each
\* operation was run on the client that was current: the current client has
\* the callbacks and the reference counts its operations leave.
thm_C13 ==
    /\ OperationsOf(executed) \o pendingOperationsRef = submitted
    /\ isInitializedRef => pendingOperationsRef = <<>>
    /\ \A i \in DOMAIN executed :
          /\ executed[i].client \in 1..clientRef
          /\ \A j \in 1..(i - 1) : executed[j].client <= executed[i].client
    /\ clientRef # 0 =>
          LET mine == OperationsOf(SelectSeq(executed,
                                             LAMBDA e : e.client = clientRef))
          IN  /\ Registered = LeftRegistered(mine)
              /\ \A p \in Products : Count(p) = LeftCount(mine, p, 0)

\* Three operations were queued before the effect ran and have been run by
\* it in order; a fourth, submitted after, was run at once.
wit_C13 ==
    /\ last.op = "executeWhenReady"
    /\ last.ready
    /\ Len(executed) = 4
    /\ \A i \in 1..3 : executed[i].queued
    /\ ~executed[4].queued
    /\ submitted = <<Operation("subscribe", FeedProduct),
                     Operation("addCallback", "cbA"),
                     Operation("subscribe", FeedProduct),
                     Operation("unsubscribe", FeedProduct)>>
    /\ Count(FeedProduct) = 1
    /\ Registered = {"cbA"}

(***************************************************************************)
(* Subscriptions on the wire.                                              *)
(***************************************************************************)
\* C14: no subscribe frame names a product for which the last frame written
\* to the same transport is a subscribe frame already.
ctr_C14 ==
    [][\A i \in DOMAIN sent' :
          sent'[i].type = "subscribe" =>
             \A p \in sent'[i].product_ids : <<sent'[i].to, p>> \notin onWire]_vars

\* C15: unsubscribeFromProduct for a product with no reference count writes
\* no frame and changes neither the connection state, its error field
\* included, nor the counts, the subscribed set and the order books; no
\* count is ever negative.
thm_C15 ==
    [][(last'.op = "unsubscribe" /\ last'.previousCount <= 0) =>
          /\ sent' = <<>>
          /\ state' = state
          /\ subscriptionCounts' = subscriptionCounts
          /\ subscribedProducts' = subscribedProducts
          /\ orderBooks' = orderBooks
          /\ \A p \in DOMAIN subscriptionCounts' : subscriptionCounts'[p] >= 1]_vars

\* ETH-USD, which nobody subscribed, has been unsubscribed on an open
\* transport while BTC-USD is subscribed and has an order book.
wit_C15 ==
    /\ last.op = "unsubscribe"
    /\ last.productId = "ETH-USD"
    /\ last.previousCount = 0
    /\ ws # 0 /\ readyState[ws] = "OPEN"
    /\ Count("BTC-USD") = 1
    /\ "BTC-USD" \in DOMAIN orderBooks
    /\ orderBooks["BTC-USD"].bids # <<>>
    /\ "ETH-USD" \notin DOMAIN subscriptionCounts

(***************************************************************************)
(* Events of products nobody subscribes to.                                *)
(***************************************************************************)
\* C16: an event for a product without a subscriber is dropped: a message
\* changes no order book of such a product, emits no order-book-update and
\* no price-update event for it and invokes no callback for it, and no
\* product without a subscriber has an order book.
thm_C16 ==
    [][/\ \A p \in DOMAIN orderBooks' : p \in subscribedProducts'
       /\ last'.op = "message" =>
             /\ \A p \in Products \ subscribedProducts :
                   /\ p \notin DOMAIN orderBooks'
                   /\ \A i \in DOMAIN last'.emitted : last'.emitted[i].productId # p
                   /\ \A i \in DOMAIN last'.invoked : last'.invoked[i].productId # p
             /\ (\A i \in DOMAIN last'.products :
                    last'.products[i] \notin subscribedProducts)
                   => /\ orderBooks' = orderBooks
                      /\ last'.emitted = <<>>
                      /\ last'.invoked = <<>>]_vars

\* A snapshot for BTC-USD has been handled on the open transport after the
\* last subscriber left and the unsubscribe frame was written, with a
\* callback registered.
wit_C16 ==
    /\ last.op = "message"
    /\ last.products = <<FeedProduct>>
    /\ last.types = <<"snapshot">>
    /\ Count(FeedProduct) = 0
    /\ onWire = {}
    /\ readyState[last.t] = "OPEN"
    /\ Registered # {}
    /\ last.emitted = <<>>

(***************************************************************************)
(* Payloads that do not parse.                                             *)
(***************************************************************************)
\* The order-book-update events the last message emitted for product p.
BookUpdates(emitted, p) ==
    Where(emitted, LAMBDA e : e = [event |-> "order-book-update", productId |-> p])

\* C17: a payload that does not parse is reported as PARSING_ERROR and
\* changes nothing else: the connection is still reported connected, the
\* transport is open and still this.ws, nothing is written, no reconnection
\* is scheduled, and the handler ends; a snapshot that arrives after the
\* error is handled as any other.
thm_C17 ==
    [][last'.op = "message" =>
          /\ ~last'.parses =>
                /\ state' = [state EXCEPT !.error = "PARSING_ERROR",
                                          !.isConnecting = FALSE]
                /\ state'.isConnected = state.isConnected
                /\ readyState' = readyState /\ readyState'[last'.t] = "OPEN"
                /\ ws' = ws
                /\ timers' = timers /\ reconnectTimeoutId' = reconnectTimeoutId
                /\ reconnectAttempts' = reconnectAttempts
                /\ sent' = <<>>
                /\ inTask' = 0
                /\ UNCHANGED subVars
          /\ (last'.parses /\ last'.afterError) =>
                \A p \in subscribedProducts :
                   (last'.types = <<"snapshot">> /\ last'.products = <<p>>) =>
                      /\ BookUpdates(last'.emitted, p) # {}
                      /\ state'.isConnected = state.isConnected
                      /\ orderBooks' =
                            handleOrderBookSnapshot(orderBooks, p,
                                                    last'.snapshots[p][1])]_vars

\* A payload that does not parse has been handled on the open transport of
\* a connected client.
wit_C17 ==
    /\ last.op = "message"
    /\ ~last.parses
    /\ state.error = "PARSING_ERROR"
    /\ state.isConnected
    /\ readyState[ws] = "OPEN"
    /\ FeedProduct \in DOMAIN orderBooks
    /\ orderBooks[FeedProduct].bids # <<>>

(***************************************************************************)
(* Registration of price-update callbacks.                                 *)
(***************************************************************************)
\* The invocations of a callback by the last message.
InvocationsOf(callback) ==
    Where(last.invoked, LAMBDA v : v.callback = callback)

\* C18: a callback that has been removed and not added again is invoked for
\* no message handled afterwards; a callback is registered once however
\* often it is added, and invoked no more than once for each price-update
\* event, exactly once where no callback registered before it throws.
thm_C18 ==
    /\ \A i, j \in DOMAIN priceUpdateCallbacks :
          priceUpdateCallbacks[i] = priceUpdateCallbacks[j] => i = j
    /\ Registered \cap removedCallbacks = {}
    /\ last.op = "message" =>
          \A callback \in Callbacks :
             /\ callback \in removedCallbacks => InvocationsOf(callback) = {}
             /\ callback \notin Registered => InvocationsOf(callback) = {}
             /\ Cardinality(InvocationsOf(callback))
                   <= Cardinality(Where(last.emitted,
                                        LAMBDA e : e.event = "price-update"))
             /\ (callback \in Registered /\ \A c \in Registered : ~Throws(c)) =>
                   Cardinality(InvocationsOf(callback))
                      = Cardinality(Where(last.emitted,
                                          LAMBDA e : e.event = "price-update"))

\* A message with one price-update event has been handled with cbA added
\* twice and cbB removed: cbA was invoked once and cbB not at all.
wit_C18 ==
    /\ last.op = "message"
    /\ "cbA" \in registeredTwice
    /\ "cbB" \in removedCallbacks
    /\ Cardinality(Where(last.emitted, LAMBDA e : e.event = "price-update")) = 1
    /\ Cardinality(InvocationsOf("cbA")) = 1
    /\ InvocationsOf("cbB") = {}

(***************************************************************************)
(* Uniqueness of price levels, and sizes that are no numbers.              *)
(***************************************************************************)
UniquePrices(entries) ==
    \A i, j \in DOMAIN entries : entries[i].price = entries[j].price => i = j

\* C19: no side of an order book holds two entries of one price.
ctr_C19 ==
    \A p \in DOMAIN orderBooks :
       UniquePrices(orderBooks[p].bids) /\ UniquePrices(orderBooks[p].asks)

\* C20: an update whose size is no number leaves no entry behind: what the
\* call returns for entries of numeric sizes has numeric sizes only.
ctr_C20 ==
    (Len(applyOut) >= 1 /\ \A x \in Range(applyIn.entries) : IsNumeric(x.size)) =>
       \A x \in Range(applyOut[1]) : IsNumeric(x.size)

(***************************************************************************)
(* The aggregation transform (AggregationProvider) and its use by          *)
(* OrderBookChart.  Numbers are exact: a price increment is in             *)
(* ten-thousandths, a parsed input price and a size in hundredths, so an   *)
(* actual increment and an aggregated price are in millionths.  The        *)
(* decimal string that toString makes of a number n is [number |-> n]:     *)
(* parseFloat gives n back, and two numbers have one string only if they   *)
(* are equal.                                                              *)
(***************************************************************************)
\* The values of the selector, and a negative number: setPriceIncrement
\* takes any number.
PRICE_INCREMENTS == {0, 5, 10, 25, 50}
Increments == PRICE_INCREMENTS \cup {-10}

NumberToString(n) == [number |-> n]

\* Math.floor and Math.ceil of the quotient a / b, b not zero.
Floor(a, b) == IF b > 0 THEN a \div b ELSE (-a) \div (-b)
Ceil(a, b) == -Floor(-a, b)

\* A parsed price, in millionths.
Millionths(price) == ParseFloat(price) * 10000

\* The aggregated price level that is rounded down on either side.
aggregatedPriceDown(price, actualIncrement, isBid) ==
    Floor(Millionths(price), actualIncrement) * actualIncrement

\* The aggregated price level of a price, for an actual increment.
aggregatedPriceOf(price, actualIncrement, isBid) ==
    IF isBid
    THEN Floor(Millionths(price), actualIncrement) * actualIncrement
    ELSE Ceil(Millionths(price), actualIncrement) * actualIncrement

ExchangesOf(order) == IF order.exchange = "" THEN {} ELSE {order.exchange}

\* The body of orders.forEach with a size that replaces the total of its
\* bucket.
AddToMapReplacing(aggregatedMap, order, actualIncrement, isBid) ==
    LET key == IF isBid
               THEN Floor(Millionths(order.price), actualIncrement) * actualIncrement
               ELSE Ceil(Millionths(order.price), actualIncrement) * actualIncrement
        at == {i \in DOMAIN aggregatedMap : aggregatedMap[i].key = key}
    IN  IF at # {}
        THEN [i \in DOMAIN aggregatedMap |->
                IF i \in at
                THEN [key |-> key, totalSize |-> ParseFloat(order.size),
                      exchanges |-> aggregatedMap[i].exchanges]
                ELSE aggregatedMap[i]]
        ELSE Append(aggregatedMap,
                    [key |-> key, totalSize |-> ParseFloat(order.size),
                     exchanges |-> {}])

\* The body of orders.forEach: aggregatedMap, a sequence of
\* [key, totalSize, exchanges] in insertion order, after one order.
AddToMap(aggregatedMap, order, actualIncrement, isBid) ==
    LET key == aggregatedPriceOf(order.price, actualIncrement, isBid)
        at == {i \in DOMAIN aggregatedMap : aggregatedMap[i].key = key}
    IN  IF at # {}
        THEN [i \in DOMAIN aggregatedMap |->
                IF i \in at
                THEN [key |-> key,
                      totalSize |-> aggregatedMap[i].totalSize
                                       + ParseFloat(order.size),
                      exchanges |-> aggregatedMap[i].exchanges
                                       \cup ExchangesOf(order)]
                ELSE aggregatedMap[i]]
        ELSE Append(aggregatedMap,
                    [key |-> key, totalSize |-> ParseFloat(order.size),
                     exchanges |-> ExchangesOf(order)])

RECURSIVE GroupOrders(_, _, _, _)
GroupOrders(aggregatedMap, orders, actualIncrement, isBid) ==
    IF orders = <<>> THEN aggregatedMap
    ELSE GroupOrders(AddToMap(aggregatedMap, Head(orders), actualIncrement, isBid),
                     Tail(orders), actualIncrement, isBid)

\* The entry made of one bucket of the map.
BucketEntry(bucket) ==
    [price |-> NumberToString(bucket.key),
     size |-> NumberToString(bucket.totalSize),
     exchange |-> IF Cardinality(bucket.exchanges) = 1
                  THEN CHOOSE e \in bucket.exchanges : TRUE
                  ELSE ToString(Cardinality(bucket.exchanges)) \o " exchanges"]

\* aggregatedOrders.sort: bids from the highest price, asks from the lowest;
\* a stable sort, by insertion of the last entry into the sorted rest.
InsertAggregated(sorted, entry, isBid) ==
    LET before == {i \in DOMAIN sorted :
                      IF isBid
                      THEN sorted[i].price.number >= entry.price.number
                      ELSE sorted[i].price.number <= entry.price.number}
        k == Cardinality(before)
    IN  SubSeq(sorted, 1, k) \o <<entry>> \o SubSeq(sorted, k + 1, Len(sorted))

RECURSIVE SortAggregated(_, _)
SortAggregated(entries, isBid) ==
    IF entries = <<>> THEN <<>>
    ELSE InsertAggregated(SortAggregated(SubSeq(entries, 1, Len(entries) - 1), isBid),
                          entries[Len(entries)], isBid)

\* aggregateOrderBookData that returns its input for the increment zero only.
aggregateUnlessZero(increment, orders, isBid) ==
    IF increment = 0 \/ orders = <<>> THEN orders
    ELSE LET actualIncrement == increment * ParseFloat(orders[1].price)
             aggregatedMap == GroupOrders(<<>>, orders, actualIncrement, isBid)
         IN  IF actualIncrement = 0 THEN orders
             ELSE Slice(SortAggregated([i \in DOMAIN aggregatedMap |->
                                          BucketEntry(aggregatedMap[i])],
                                       isBid),
                        10)

\* aggregateOrderBookData of the provider whose state is increment.
aggregateOrderBookData(increment, orders, isBid) ==
    IF increment <= 0 \/ orders = <<>> THEN orders
    ELSE LET referencePrice == ParseFloat(orders[1].price)
             actualIncrement == increment * referencePrice
             aggregatedMap == GroupOrders(<<>>, orders, actualIncrement, isBid)
         IN  IF referencePrice <= 0 THEN orders
             ELSE Slice(SortAggregated([i \in DOMAIN aggregatedMap |->
                                          BucketEntry(aggregatedMap[i])],
                                       isBid),
                        10)

\* setPriceIncrement; the aggregation callback is made anew, so what the
\* useMemo of the chart had computed is no longer of now.
setPriceIncrement(increment) ==
    /\ increment # priceIncrement
    /\ priceIncrement' = increment
    /\ aggregatedOrderBook' = <<>>
    /\ sent' = <<>>
    /\ last' = [op |-> "setPriceIncrement", increment |-> increment]
    /\ UNCHANGED <<connVars, subVars, cbVars, ctxVars, onWire, applyIn, applyOut,
                   referenceBooks, contextOrderBooks, channelToSubscription>>

\* The useMemo of OrderBookChart for the selected product.
renderOrderBookChart(selectedProduct) ==
    /\ aggregatedOrderBook = <<>>
    /\ selectedProduct \in DOMAIN orderBooks
    /\ aggregatedOrderBook' =
          <<[bids |-> aggregateOrderBookData(priceIncrement,
                                             orderBooks[selectedProduct].bids, TRUE),
             asks |-> aggregateOrderBookData(priceIncrement,
                                             orderBooks[selectedProduct].asks, FALSE),
             lastUpdated |-> orderBooks[selectedProduct].lastUpdated]>>
    /\ sent' = <<>>
    /\ last' = [op |-> "render", product |-> selectedProduct]
    /\ UNCHANGED <<connVars, subVars, cbVars, ctxVars, onWire, applyIn, applyOut,
                   priceIncrement, referenceBooks, contextOrderBooks,
                   channelToSubscription>>

\* The sides of the order book that is aggregated: ladders up to the depth
\* bound, levels that fall into one bucket, levels of several exchanges and
\* of none, one price held twice, and a first price of zero.
EntryAt(price, size, exchange) ==
    [price |-> price, size |-> size, exchange |-> exchange]

AggregatedBids ==
    {BestBids(n) : n \in 0..ORDER_BOOK_DEPTH}
    \cup {<<Ent("100.0", "1")>>,
          <<Ent("100.50", "2"), Ent("100.20", "1"), Ent("100.00", "3")>>,
          <<EntryAt("100.50", "2", ""), EntryAt("100.20", "1", "Coinbase"),
            EntryAt("100.00", "3", "Kraken"), EntryAt("99.50", "1", "Kraken")>>,
          <<EntryAt("100.20", "1", ""), EntryAt("100.00", "2", "")>>,
          <<Ent("100.00", "1"), Ent("100.00", "2")>>,
          <<Ent("0.00", "1")>>}

AggregatedAsks ==
    {BestAsks(n) : n \in 0..ORDER_BOOK_DEPTH}
    \cup {<<Ent("100.50", "2"), Ent("101.50", "1")>>,
          <<EntryAt("100.00", "2", "Kraken"), EntryAt("100.20", "1", "Coinbase"),
            EntryAt("100.50", "3", "Coinbase")>>}

InitAggregate ==
    /\ InitRest
    /\ InitObserved({})
    /\ onWire = {<<1, FeedProduct>>}
    /\ ws = 1
    /\ reconnectAttempts = 0
    /\ reconnectTimeoutId = 0
    /\ subscribedProducts = {FeedProduct}
    /\ subscriptionCounts = MapSet(<< >>, FeedProduct, 1)
    /\ \E bids \in AggregatedBids, asks \in AggregatedAsks :
          orderBooks = MapSet(<< >>, FeedProduct,
                              [bids |-> bids, asks |-> asks, lastUpdated |-> TRUE])
    /\ state = [isConnected |-> TRUE, isConnecting |-> FALSE, error |-> "null"]
    /\ readyState = <<"OPEN">>
    /\ established = {1}
    /\ inTask = 0
    /\ timers = {}
    /\ timerSeq = 0
    /\ sent = <<>>
    /\ last = [op |-> "new"]
    /\ scheduledSinceOpen = 0
    /\ exhausted = FALSE
    /\ disconnected = {}
    /\ consumerCalls = 1
    /\ applyIn = NoCall
    /\ applyOut = <<>>

NextAggregate ==
    \/ \E increment \in Increments : setPriceIncrement(increment)
    \/ renderOrderBookChart(FeedProduct)

SpecAggregate == InitAggregate /\ [][NextAggregate]_vars

(***************************************************************************)
(* Aggregation: identity and conservation.                                 *)
(***************************************************************************)
\* The chart has just computed its aggregated order book.
Rendered == aggregatedOrderBook = <<>> /\ aggregatedOrderBook' # <<>>

\* Two lists of entries are the same list.  The strings of the feed and the
\* strings made of numbers are values of two kinds, which are compared as
\* the texts that stand for them.
SameList(a, b) == ToString(a) = ToString(b)

\* C21: where the price increment is not positive or a side has no entry,
\* the aggregated side is the side itself, entry for entry in the same
\* order; and whatever the increment, the aggregation leaves the sides it
\* is given and the order books of the client as they are.
thm_C21 ==
    [][Rendered =>
          /\ orderBooks' = orderBooks
          /\ subscribedProducts' = subscribedProducts
          /\ priceIncrement' = priceIncrement
          /\ \A p \in DOMAIN orderBooks :
                last'.product = p =>
                   /\ (priceIncrement <= 0 \/ orderBooks[p].bids = <<>>) =>
                         SameList(aggregatedOrderBook'[1].bids, orderBooks[p].bids)
                   /\ (priceIncrement <= 0 \/ orderBooks[p].asks = <<>>) =>
                         SameList(aggregatedOrderBook'[1].asks, orderBooks[p].asks)]_vars

\* With a negative price increment the chart has aggregated an order book
\* of ten bids and two asks, which it shows as they are.
wit_C21 ==
    /\ priceIncrement < 0
    /\ aggregatedOrderBook # <<>>
    /\ Len(orderBooks[FeedProduct].bids) = ORDER_BOOK_DEPTH
    /\ aggregatedOrderBook[1].bids = BestBids(ORDER_BOOK_DEPTH)
    /\ aggregatedOrderBook[1].asks = <<Ent("100.50", "2"), Ent("101.50", "1")>>

RECURSIVE SumOfSizes(_)
SumOfSizes(orders) ==
    IF orders = <<>> THEN 0
    ELSE ParseFloat(Head(orders).size) + SumOfSizes(Tail(orders))

RECURSIVE SumOfBuckets(_)
SumOfBuckets(buckets) ==
    IF buckets = <<>> THEN 0
    ELSE Head(buckets).size.number + SumOfBuckets(Tail(buckets))

\* A side is aggregated: the increment is positive, the side has an entry
\* and its reference price is positive.
Aggregates(orders) ==
    priceIncrement > 0 /\ orders # <<>> /\ ParseFloat(orders[1].price) > 0

\* The buckets hold every entry of the side once: their sizes add up to the
\* sizes of the entries, and there is a bucket for each aggregated price.
Conserved(orders, buckets, isBid) ==
    /\ SumOfBuckets(buckets) = SumOfSizes(orders)
    /\ {buckets[i].price.number : i \in DOMAIN buckets}
          = {aggregatedPriceOf(orders[i].price,
                               priceIncrement * ParseFloat(orders[1].price), isBid) :
                i \in DOMAIN orders}
    /\ \A i, j \in DOMAIN buckets :
          buckets[i].price.number = buckets[j].price.number => i = j

\* C22: the sizes of the buckets of an aggregated side of at most
\* ORDER_BOOK_DEPTH entries add up to the sizes of its entries; the
\* truncation to ten buckets drops none and no entry is counted twice.
thm_C22 ==
    aggregatedOrderBook # <<>> =>
       \A p \in DOMAIN orderBooks :
          last.product = p =>
             /\ Aggregates(orderBooks[p].bids) =>
                   Conserved(orderBooks[p].bids, aggregatedOrderBook[1].bids, TRUE)
             /\ Aggregates(orderBooks[p].asks) =>
                   Conserved(orderBooks[p].asks, aggregatedOrderBook[1].asks, FALSE)

\* With the increment 0.005 and the reference price 100.50 four bids of
\* sizes 2, 1, 3 and 1 have become three buckets, the bids at 100.20 and
\* 100.00 one bucket of size 4 at 99.9975, and ten asks ten buckets.
wit_C22 ==
    /\ priceIncrement = 50
    /\ aggregatedOrderBook # <<>>
    /\ Len(orderBooks[FeedProduct].bids) = 4
    /\ Len(aggregatedOrderBook[1].bids) = 3
    /\ aggregatedOrderBook[1].bids[1] =
          [price |-> NumberToString(100500000), size |-> NumberToString(200),
           exchange |-> "0 exchanges"]
    /\ aggregatedOrderBook[1].bids[2] =
          [price |-> NumberToString(99997500), size |-> NumberToString(400),
           exchange |-> "2 exchanges"]
    /\ aggregatedOrderBook[1].bids[3].exchange = "Kraken"
    /\ Len(orderBooks[FeedProduct].asks) = ORDER_BOOK_DEPTH
    /\ Len(aggregatedOrderBook[1].asks) = ORDER_BOOK_DEPTH

(***************************************************************************)
(* The close event.                                                        *)
(***************************************************************************)
\* C23: the close event schedules a reconnection, one timer, exactly if the
\* closure code is not NORMAL_CLOSURE_CODE and the attempt counter is below
\* MAX_RECONNECT_ATTEMPTS; a closure of the normal code schedules none; and
\* the state becomes isConnected = false, isConnecting = false.
thm_C23 ==
    [][last'.op = "close" =>
          /\ (timers' # timers) <=>
                (last'.code # NORMAL_CLOSURE_CODE
                 /\ reconnectAttempts < MAX_RECONNECT_ATTEMPTS)
          /\ timers \subseteq timers'
          /\ Cardinality(timers' \ timers) <= 1
          /\ last'.code = NORMAL_CLOSURE_CODE =>
                (timers' = timers /\ reconnectTimeoutId' = reconnectTimeoutId)
          /\ ~state'.isConnected
          /\ ~state'.isConnecting]_vars

\* An abnormal closure at the attempt counter MAX_RECONNECT_ATTEMPTS - 1 has
\* scheduled a reconnection.
wit_C23 ==
    /\ last.op = "close"
    /\ last.code = ABNORMAL_CLOSURE_CODE
    /\ last.attempts = MAX_RECONNECT_ATTEMPTS - 1
    /\ last.scheduled
    /\ \E tm \in timers : tm.id = reconnectTimeoutId
    /\ ~state.isConnected /\ ~state.isConnecting

(***************************************************************************)
(* Updates before a snapshot, and the top of the book.                     *)
(***************************************************************************)
\* C24: an update event for a subscribed product whose order book is still
\* the empty one of its subscription leaves the order book empty, with no
\* lastUpdated, and emits no event.
ctr_C24 ==
    [][\A p \in subscribedProducts :
          (/\ last'.op = "message"
           /\ last'.types = <<"update">>
           /\ last'.products = <<p>>
           /\ p \in DOMAIN orderBooks
           /\ orderBooks[p] = EmptyOrderBook) =>
             /\ orderBooks'[p] = EmptyOrderBook
             /\ last'.emitted = <<>>]_vars

\* The removal of the ten best bids of the ladder, in one update event.
RemoveLadderTop ==
    [i \in 1..ORDER_BOOK_DEPTH |->
        Upd("bid", BidLadder[Len(BidLadder) + 1 - i], "0")]

\* What the feed sends where the top of the book is studied.
TopMessages ==
    {L2(<<Event(FeedProduct, "snapshot", u)>>) :
        u \in {ScenarioSnapshot, LadderSnapshot}}
    \cup {L2(<<Event(FeedProduct, "update", b)>>) :
             b \in SingleUpdates \cup {RemoveLadderTop}}

InitTop == InitRest /\ InitObserved({FeedProduct}) /\ FeedClient

NextTop == \E t \in Transports, data \in TopMessages : handleMessage(t, data)

SpecTop == InitTop /\ [][NextTop]_vars

\* The best entries of two sides are the same: both sides are empty, or
\* neither is and their first entries are equal.
SameBest(maintained, reference) ==
    /\ (maintained = <<>>) <=> (reference = <<>>)
    /\ (maintained # <<>> /\ reference # <<>>) => maintained[1] = reference[1]

\* C25: after a snapshot and the updates that followed it, the best bid and
\* the best ask of the order book are those of the order book kept from the
\* same events without depth bound.
ctr_C25 ==
    \A p \in DOMAIN referenceBooks \cap DOMAIN orderBooks :
       referenceBooks[p] # <<>> =>
          /\ SameBest(orderBooks[p].bids, referenceBooks[p][1].bids)
          /\ SameBest(orderBooks[p].asks, referenceBooks[p][1].asks)

(***************************************************************************)
(* The subscriptions the server holds.                                     *)
(***************************************************************************)
\* The products the server holds subscribed on transport t.
HeldOn(t) == {p \in Products : <<t, p>> \in onWire}

\* The products with a reference count of one or more.
Counted == {p \in Products : Count(p) >= 1}

\* C26: whenever the transport of the client is open and no handler is
\* running, the server holds on it the products with a reference count of
\* one or more, and no other.
thm_C26 ==
    (ws # 0 /\ readyState[ws] = "OPEN" /\ inTask = 0) => HeldOn(ws) = Counted

\* The second transport of the client has opened, by a reconnection after
\* the first was lost, and the server holds on it the one product that has
\* subscribers, two of them; the other product has none.
wit_C26 ==
    /\ ws = 2 /\ readyState[ws] = "OPEN" /\ inTask = 0
    /\ readyState[1] = "CLOSED" /\ 1 \in established
    /\ last.op = "open"
    /\ Count("BTC-USD") = 2
    /\ Count("ETH-USD") = 0
    /\ HeldOn(ws) = {"BTC-USD"}

(***************************************************************************)
(* The registry of subscriptions.                                          *)
(***************************************************************************)
\* The counts, the subscribed set and the order books name the same
\* products, and every count is one or more.
RegistryAgrees(counts, subscribed, books) ==
    /\ DOMAIN counts = subscribed
    /\ DOMAIN books = subscribed
    /\ \A p \in DOMAIN counts : counts[p] >= 1

\* C27: in every state the three structures agree; an order book comes to
\* exist exactly when a count goes from 0 to 1, and is then empty; a product
\* of count 0 has none.
thm_C27 ==
    [][/\ RegistryAgrees(subscriptionCounts, subscribedProducts, orderBooks)
       /\ RegistryAgrees(subscriptionCounts', subscribedProducts', orderBooks')
       /\ \A p \in Products :
             /\ (p \notin DOMAIN orderBooks /\ p \in DOMAIN orderBooks')
                   <=> (CountIn(subscriptionCounts, p) = 0
                        /\ CountIn(subscriptionCounts', p) = 1)
             /\ (p \notin DOMAIN orderBooks /\ p \in DOMAIN orderBooks')
                   => orderBooks'[p] = EmptyOrderBook
             /\ CountIn(subscriptionCounts', p) = 0 => p \notin DOMAIN orderBooks']_vars

\* ETH-USD has got its first subscriber, and an empty order book, while
\* BTC-USD has an order book of a snapshot.
wit_C27 ==
    /\ last.op = "subscribe"
    /\ last.productId = "ETH-USD"
    /\ last.previousCount = 0
    /\ Count("ETH-USD") = 1
    /\ DOMAIN orderBooks = {"BTC-USD", "ETH-USD"}
    /\ orderBooks["ETH-USD"] = EmptyOrderBook
    /\ orderBooks["BTC-USD"].bids # <<>>

(***************************************************************************)
(* The retry counter after an open event.                                  *)
(***************************************************************************)
\* C28: the open event makes the state isConnected = true, isConnecting =
\* false and the attempt counter 0; the first reconnection scheduled after
\* an open event has the delay RECONNECT_BASE_DELAY.
ctr_C28 ==
    /\ last.op = "open" =>
          (state.isConnected /\ ~state.isConnecting /\ reconnectAttempts = 0)
    /\ \A tm \in timers : tm.nth = 1 => tm.delay = RECONNECT_BASE_DELAY

(***************************************************************************)
(* Termination of retrying.  The browser fires every pending timer, and    *)
(* every transport that is connecting opens or fails; the close event of a *)
(* failed transport follows its error event.                               *)
(***************************************************************************)
SpecRetryFair ==
    /\ Init
    /\ [][NextRetry]_vars
    /\ WF_vars(\E tm \in timers : reconnectTimerFires(tm, MaxRetryTransports))
    /\ WF_vars(\E t \in Transports : handleOpen(t) \/ handleWebSocketError(t))
    /\ WF_vars(\E t \in Transports : handleCloseAfterError(t))

\* An abnormal closure has scheduled a reconnection, and the consumer makes
\* no call from now on.
RetryingAlone ==
    last.op = "close" /\ last.scheduled /\ consumerCalls = MaxRetryCalls

\* The client is open, or has reported the retry budget exhausted with no
\* reconnection timer pending (or the transports of the model are used up).
RetryingEnded ==
    \/ state.isConnected
    \/ state.error = "MAX_RECONNECT_ATTEMPTS" /\ timers = {}
    \/ Created >= MaxRetryTransports

\* C29: the attempt counter, which counts the automatic reconnection
\* attempts since the last open event, never exceeds MAX_RECONNECT_ATTEMPTS;
\* and retrying that begins at an abnormal closure ends with the client
\* open, or with MAX_RECONNECT_ATTEMPTS reported and no timer pending.
ctr_C29 ==
    /\ [](reconnectAttempts <= MAX_RECONNECT_ATTEMPTS)
    /\ RetryingAlone ~> RetryingEnded

\* The transports that are connecting or open; the handlers of the client
\* stay installed on every transport it constructed.
LiveTransports ==
    {t \in Transports : readyState[t] \in {"CONNECTING", "OPEN"}}

\* C30: at most one transport that is connecting or open has the handlers
\* of the client installed, and an open, error or close event of a transport
\* that is not the current one changes neither the connection state nor the
\* reference to the current transport.
ctr_C30 ==
    /\ [](Cardinality(LiveTransports) <= 1)
    /\ [][(last'.op \in {"open", "error", "close"} /\ last'.t # ws)
             => (state' = state /\ ws' = ws)]_vars

(***************************************************************************)
(* The connection state.                                                   *)
(***************************************************************************)
\* The client holds an open transport: this.ws is one, and it is OPEN.
HoldsOpen == ws # 0 /\ readyState[ws] = "OPEN"

\* C31: between the handlers, isConnected and isConnecting are not both
\* true, and isConnected is true only while this.ws is an open transport.
ctr_C31 ==
    inTask = 0 =>
       /\ ~(state.isConnected /\ state.isConnecting)
       /\ state.isConnected => HoldsOpen

(***************************************************************************)
(* Messages that end in a parsing error.                                   *)
(***************************************************************************)
\* An event whose JSON has a product and a type and no updates.
EventWithoutUpdates(productId, type) ==
    [product_id |-> productId, type |-> type]

\* Payloads that JSON.parse rejects, messages whose events lack their
\* updates, alone or after an event that is well formed, and messages that
\* are well formed.
ParseMessages ==
    {[parses |-> FALSE, channel |-> "", events |-> <<>>],
     L2(<<EventWithoutUpdates(FeedProduct, "snapshot")>>),
     L2(<<Event(FeedProduct, "snapshot", ScenarioSnapshot),
          EventWithoutUpdates(FeedProduct, "update")>>),
     L2(<<Event(FeedProduct, "update", <<Upd("bid", "100.20", "1")>>),
          EventWithoutUpdates(FeedProduct, "snapshot")>>),
     L2(<<Event(FeedProduct, "snapshot", ScenarioSnapshot)>>),
     L2(<<Event(FeedProduct, "update", <<Upd("offer", "100.50", "0")>>)>>),
     L2(<<Event(FeedProduct, "update", <<Upd("bid", "100.20", "1")>>)>>)}

NextParse ==
    \/ \E t \in Transports, data \in ParseMessages : handleMessage(t, data)
    \/ subscribeToProduct(FeedProduct)
    \/ unsubscribeFromProduct(FeedProduct)

SpecParse == InitFeed /\ [][NextParse]_vars

\* C32: a message whose handling reports PARSING_ERROR leaves every order
\* book as it was before the message, and no order-book-update or
\* price-update event has been emitted for it.
ctr_C32 ==
    [][(last'.op = "message" /\ (~last'.parses \/ last'.threw))
          => (orderBooks' = orderBooks /\ last'.emitted = <<>>)]_vars

(***************************************************************************)
(* The error event.                                                        *)
(***************************************************************************)
\* C33: the error event of a transport records CONNECTION_FAILED and clears
\* isConnecting, and nothing else: isConnected, this.ws, the attempt
\* counter, the reconnection timers, the subscriptions and the order books
\* stay as they are, no frame is written and no other transport changes; a
\* reconnection timer is set by a close event only.
thm_C33 ==
    [][/\ last'.op = "error" =>
             /\ state' = [state EXCEPT !.error = "CONNECTION_FAILED",
                                       !.isConnecting = FALSE]
             /\ UNCHANGED <<ws, reconnectAttempts, timers, reconnectTimeoutId,
                            subscribedProducts, subscriptionCounts, orderBooks>>
             /\ sent' = <<>>
             /\ \A t \in Transports \ {last'.t} : readyState'[t] = readyState[t]
       /\ timerSeq' # timerSeq => last'.op = "close"]_vars

\* The error event of the open transport of a connected client that has a
\* subscription and an order book with levels has been handled, and its
\* close event is to follow.
wit_C33 ==
    /\ last.op = "error"
    /\ inTask = last.t
    /\ ws = last.t
    /\ state.isConnected
    /\ state.error = "CONNECTION_FAILED"
    /\ \E p \in subscribedProducts :
          p \in DOMAIN orderBooks /\ orderBooks[p].bids # <<>>

(***************************************************************************)
(* The per-product view (useOrderBook).  A consumer that mounts runs the   *)
(* effect, which calls subscribeToProduct of the context for its product;  *)
(* the cleanup of the effect, on unmount or before the effect runs for a   *)
(* new product, calls unsubscribeFromProduct for the product it had.  The  *)
(* consumers are children of the provider: their effects run before its    *)
(* effect when the tree mounts, and none mounts once the provider's        *)
(* cleanup has run.  The consumers viewing a product are those whose       *)
(* effect has run and whose cleanup has not.                               *)
(***************************************************************************)
RECURSIVE Viewers(_, _)
Viewers(ops, p) ==
    IF ops = <<>> THEN 0
    ELSE Viewers(SubSeq(ops, 1, Len(ops) - 1), p)
         + (IF ops[Len(ops)] = Operation("subscribe", p) THEN 1
            ELSE IF ops[Len(ops)] = Operation("unsubscribe", p) THEN -1
            ELSE 0)

\* The effect of useOrderBook for a consumer of product p.
mountView(p) ==
    /\ clientRef = 0 \/ isInitializedRef
    /\ Viewers(submitted, p) < MaxCount
    /\ executeWhenReady(Operation("subscribe", p))

\* The cleanup of the effect of a consumer of product p.
unmountView(p) ==
    /\ Viewers(submitted, p) > 0
    /\ executeWhenReady(Operation("unsubscribe", p))

NextView ==
    \/ clientRef = 0 /\ initEffect
    \/ cleanupEffect
    \/ \E p \in Products : mountView(p)
    \/ \E p \in Products : unmountView(p)
    \/ \E t \in Transports : handleOpen(t)

SpecView == Init /\ [][NextView]_vars

\* The provider is set up and nothing is queued.
Flushed == isInitializedRef /\ pendingOperationsRef = <<>>

\* The last consumer of p has released it, the operations being flushed.
LastReleased(p) ==
    /\ Flushed
    /\ last'.op = "executeWhenReady"
    /\ last'.operation = Operation("unsubscribe", p)
    /\ Viewers(submitted', p) = 0

UnsubscribeFrames(frames, p) ==
    {i \in DOMAIN frames :
        frames[i].type = "unsubscribe" /\ p \in frames[i].product_ids}

\* C34 as stated: once the queued operations are flushed, the reference
\* count of each product is the number of consumers viewing it; and when the
\* last consumer of a product releases it the count is 0 and one
\* unsubscribe frame is written.
ctr_C34 ==
    /\ [](Flushed => \A p \in Products : Count(p) = Viewers(submitted, p))
    /\ [][\A p \in Products :
             LastReleased(p) =>
                /\ CountIn(subscriptionCounts', p) = 0
                /\ Cardinality(UnsubscribeFrames(sent', p)) = 1]_vars

\* C34 as amended: once the queued operations are flushed, the reference
\* count of each product is the number of consumers viewing it; and when the
\* last consumer of a product releases it the count is 0, and one
\* unsubscribe frame is written if this.ws is an open transport, none if it
\* is not.
thm_C34 ==
    /\ [](Flushed => \A p \in Products : Count(p) = Viewers(submitted, p))
    /\ [][\A p \in Products :
             LastReleased(p) =>
                /\ CountIn(subscriptionCounts', p) = 0
                /\ Cardinality(UnsubscribeFrames(sent', p))
                      = IF HoldsOpen THEN 1 ELSE 0]_vars

\* Two consumers of BTC-USD mounted before the provider was set up; the
\* transport being open, one of them has unmounted and then the other, which
\* wrote the unsubscribe frame.
wit_C34 ==
    /\ Flushed
    /\ HoldsOpen
    /\ submitted = <<Operation("subscribe", "BTC-USD"),
                     Operation("subscribe", "BTC-USD"),
                     Operation("unsubscribe", "BTC-USD"),
                     Operation("unsubscribe", "BTC-USD")>>
    /\ Len(executed) = 4
    /\ executed[1].queued /\ executed[2].queued
    /\ Count("BTC-USD") = 0
    /\ Cardinality(UnsubscribeFrames(sent, "BTC-USD")) = 1

(***************************************************************************)
(* The order books of the context.  The provider listens to the client of  *)
(* the feed; a consumer of useOrderBook reads the entry of its product in  *)
(* the provider's state, or the empty order book where there is none.      *)
(***************************************************************************)
InitMirror ==
    /\ InitRest
    /\ referenceBooks = << >>
    /\ contextOrderBooks = << << >> >>
    /\ FeedClient

SpecMirror == InitMirror /\ [][NextParse]_vars

\* useOrderBook: orderBooks[productId] || the empty order book
useOrderBook(productId) ==
    IF productId \in DOMAIN contextOrderBooks[1]
    THEN contextOrderBooks[1][productId]
    ELSE EmptyOrderBook

\* C35: for every product the client has an order book for, a consumer
\* reads that order book from the context; and the context has no entry for
\* a product whose reference count is 0.
ctr_C35 ==
    contextOrderBooks # <<>> =>
       \A p \in Products :
          /\ p \in DOMAIN orderBooks => useOrderBook(p) = orderBooks[p]
          /\ Count(p) = 0 => p \notin DOMAIN contextOrderBooks[1]

(***************************************************************************)
(* The charting datafeed (CoinbaseDatafeed).  Its webSocketProvider is one *)
(* whose subscribeToProduct and unsubscribeFromProduct reach the client    *)
(* at once; the client starts with one other consumer of FeedProduct.      *)
(***************************************************************************)
SubscriberUIDs == {"uid1", "uid2", "uid3"}

\* this.priceUpdateCallback
priceUpdateCallback == "handlePriceUpdate"

\* The subscriber ids of all handlers of a channelToSubscription map.
HandlerIds(map) == UNION {{map[s][i] : i \in DOMAIN map[s]} : s \in DOMAIN map}

\* A call of the datafeed into its webSocketProvider: op runs on the client.
ProviderCall(op) ==
    /\ ClientBecomes(RunOperation(ClientPart, op, ws, readyState))
    /\ sent' = RunOperation(ClientPart, op, ws, readyState).frames
    /\ onWire' = Wired(onWire, sent')

\* What no method of the datafeed changes.
datafeedUnchanged ==
    UNCHANGED <<connVars, ctxVars, applyIn, applyOut, aggVars, referenceBooks,
                contextOrderBooks, removedCallbacks, registeredTwice>>

\* new CoinbaseDatafeed(webSocketProvider): initializeWebSocketProvider
\* registers the price callback.
createCoinbaseDatafeed ==
    /\ inTask = 0
    /\ channelToSubscription = <<>>
    /\ channelToSubscription' = << << >> >>
    /\ ProviderCall(Operation("addCallback", priceUpdateCallback))
    /\ last' = [op |-> "createCoinbaseDatafeed"]
    /\ datafeedUnchanged

\* subscribeBars: a handler is pushed on the item of the symbol; the first
\* handler of a symbol makes the item and subscribes to the product.
subscribeBars(symbol, subscriberUID) ==
    /\ inTask = 0
    /\ channelToSubscription # <<>>
    /\ subscriberUID \notin HandlerIds(channelToSubscription[1])
    /\ Count(symbol) < MaxCount
    /\ IF symbol \in DOMAIN channelToSubscription[1]
       THEN /\ channelToSubscription' =
                  <<[channelToSubscription[1] EXCEPT
                        ![symbol] = Append(@, subscriberUID)]>>
            /\ sent' = <<>>
            /\ UNCHANGED <<subVars, priceUpdateCallbacks, onWire>>
       ELSE /\ channelToSubscription' =
                  <<MapSet(channelToSubscription[1], symbol, <<subscriberUID>>)>>
            /\ ProviderCall(Operation("subscribe", symbol))
    /\ last' = [op |-> "subscribeBars", symbol |-> symbol,
                subscribed |-> symbol \notin DOMAIN channelToSubscription[1]]
    /\ datafeedUnchanged

\* unsubscribeBars: the handler of the subscriber is taken out of its item;
\* an item left without handlers unsubscribes from the product and goes.
unsubscribeBars(subscriberUID) ==
    /\ inTask = 0
    /\ channelToSubscription # <<>>
    /\ LET map == channelToSubscription[1]
           found == {s \in DOMAIN map : \E i \in DOMAIN map[s] : map[s][i] = subscriberUID}
       IN  IF found = {}
           THEN /\ sent' = <<>>
                /\ last' = [op |-> "unsubscribeBars", symbol |-> "",
                            unsubscribed |-> FALSE]
                /\ UNCHANGED <<channelToSubscription, subVars,
                               priceUpdateCallbacks, onWire>>
           ELSE \E symbol \in found :
                   LET handlers == SelectSeq(map[symbol],
                                             LAMBDA id : id # subscriberUID)
                   IN  /\ IF handlers = <<>>
                          THEN /\ ProviderCall(Operation("unsubscribe", symbol))
                               /\ channelToSubscription' = <<MapDelete(map, symbol)>>
                          ELSE /\ channelToSubscription' =
                                     <<[map EXCEPT ![symbol] = handlers]>>
                               /\ sent' = <<>>
                               /\ UNCHANGED <<subVars, priceUpdateCallbacks, onWire>>
                       /\ last' = [op |-> "unsubscribeBars", symbol |-> symbol,
                                   unsubscribed |-> handlers = <<>>]
    /\ datafeedUnchanged

\* cleanup(): offPriceUpdate(this.priceUpdateCallback), then
\* channelToSubscription.clear()
cleanup ==
    /\ inTask = 0
    /\ channelToSubscription # <<>>
    /\ ProviderCall(Operation("removeCallback", priceUpdateCallback))
    /\ channelToSubscription' = << << >> >>
    /\ last' = [op |-> "cleanup", held |-> DOMAIN channelToSubscription[1]]
    /\ datafeedUnchanged

NextDatafeed ==
    \/ createCoinbaseDatafeed
    \/ \E symbol \in Products, id \in SubscriberUIDs : subscribeBars(symbol, id)
    \/ \E id \in SubscriberUIDs : unsubscribeBars(id)
    \/ cleanup

SpecDatafeed == InitFeed /\ [][NextDatafeed]_vars

\* The reference count the other consumers hold for product p.
HeldByOthers(p) == IF p = FeedProduct THEN 1 ELSE 0

\* C36: after cleanup() the datafeed has issued as many unsubscribeFromProduct
\* calls as subscribeToProduct calls for every symbol, so that the reference
\* count of each symbol is what the other consumers hold.
ctr_C36 ==
    last.op = "cleanup" => \A p \in Products : Count(p) = HeldByOthers(p)

(***************************************************************************)
(* The error field of the connection state: the connection machine with    *)
(* payloads that parse and payloads that do not.                           *)
(***************************************************************************)
ErrorMessages ==
    {[parses |-> FALSE, channel |-> "", events |-> <<>>],
     L2(<<Event(FeedProduct, "snapshot", ScenarioSnapshot)>>)}

NextError ==
    \/ connect(MaxErrorTransports, MaxErrorCalls)
    \/ disconnect(MaxErrorCalls)
    \/ subscribeToProduct(FeedProduct)
    \/ \E t \in Transports : handleOpen(t)
    \/ \E t \in Transports, data \in ErrorMessages : handleMessage(t, data)
    \/ \E t \in Transports : handleWebSocketError(t)
    \/ \E t \in Transports : handleCloseAfterError(t)
    \/ \E t \in Transports, code \in CloseCodes : handleClose(t, code)
    \/ \E tm \in timers : reconnectTimerFires(tm, MaxErrorTransports)

SpecError == Init /\ [][NextError]_vars

\* The step is a message that was processed without an exception.
ProcessedMessage == last'.op = "message" /\ last'.parses /\ ~last'.threw

\* The step is a call of connect(): the consumer's, or the timer callback's.
ConnectCall == last'.op \in {"connect", "timer"}

\* C37: an error that is recorded is cleared by no step but a call of
\* connect(): a message that is processed and an open event leave the error
\* field as it is, a close event leaves an error in it, and so does every
\* other step; and while isConnecting is true the error field is absent.
thm_C37 ==
    /\ [][/\ (state.error # "null" /\ state'.error = "null") => ConnectCall
          /\ (ProcessedMessage \/ last'.op = "open") => state'.error = state.error
          /\ (last'.op = "close" /\ state.error # "null") => state'.error # "null"]_vars
    /\ [](state.isConnecting => state.error = "null")

\* A message has been processed on an open connection after a PARSING_ERROR,
\* and the error is still in the state.
wit_C37 ==
    /\ last.op = "message"
    /\ last.parses /\ ~last.threw
    /\ last.afterError
    /\ state.error = "PARSING_ERROR"
    /\ state.isConnected

(***************************************************************************)
(* Aggregation: the buckets.                                               *)
(***************************************************************************)
\* The prices and the sizes of the entries the aggregation returned for a
\* side, as numbers (millionths and hundredths): those of its buckets, or
\* those of the side where it returned the side.
BucketPrices(orders, buckets) ==
    IF Aggregates(orders)
    THEN [i \in DOMAIN buckets |-> buckets[i].price.number]
    ELSE [i \in DOMAIN orders |-> Millionths(orders[i].price)]

BucketSizes(orders, buckets) ==
    IF Aggregates(orders)
    THEN [i \in DOMAIN buckets |-> buckets[i].size.number]
    ELSE [i \in DOMAIN orders |-> ParseFloat(orders[i].size)]

IsMultiple(n, step) == IF step = 0 THEN n = 0 ELSE n % step = 0

\* An entry of price m (millionths) belongs to the bucket of price b: the
\* bucket is the multiple of the step next below a bid, next above an ask.
BelongsTo(m, b, step, isBid) ==
    IF step = 0 THEN m = b
    ELSE IF isBid THEN b <= m /\ m < b + step
    ELSE b - step < m /\ m <= b

RECURSIVE SumOfSizesIn(_, _, _, _)
SumOfSizesIn(orders, b, step, isBid) ==
    IF orders = <<>> THEN 0
    ELSE (IF BelongsTo(Millionths(Head(orders).price), b, step, isBid)
          THEN ParseFloat(Head(orders).size) ELSE 0)
         + SumOfSizesIn(Tail(orders), b, step, isBid)

\* What the claim says of one side and of what the aggregation returned for
\* it.
Bucketed(orders, buckets, isBid) ==
    LET step == priceIncrement * ParseFloat(orders[1].price)
        prices == BucketPrices(orders, buckets)
        sizes == BucketSizes(orders, buckets)
    IN  /\ ~Aggregates(orders) => SameList(buckets, orders)
        /\ \A i \in DOMAIN prices : IsMultiple(prices[i], step)
        /\ \A j \in DOMAIN orders :
              \E i \in DOMAIN prices :
                 /\ BelongsTo(Millionths(orders[j].price), prices[i], step, isBid)
                 /\ IF isBid THEN prices[i] <= Millionths(orders[j].price)
                    ELSE prices[i] >= Millionths(orders[j].price)
        /\ \A i \in DOMAIN prices :
              sizes[i] = SumOfSizesIn(orders, prices[i], step, isBid)
        /\ \A i, j \in DOMAIN prices :
              i < j => IF isBid THEN prices[i] > prices[j] ELSE prices[i] < prices[j]
        /\ Len(buckets) <= 10

\* C38: with a positive increment every price of an aggregated side is a
\* multiple of the actual increment, each bid is in the bucket of the
\* multiple next below its price and each ask in the bucket of the multiple
\* next above, a bucket is one entry whose size is the sum of its entries,
\* bids are in descending and asks in ascending order of price, and a side
\* has at most ten buckets.
thm_C38 ==
    (aggregatedOrderBook # <<>> /\ priceIncrement > 0) =>
       \A p \in DOMAIN orderBooks :
          last.product = p =>
             /\ orderBooks[p].bids # <<>> =>
                   Bucketed(orderBooks[p].bids, aggregatedOrderBook[1].bids, TRUE)
             /\ orderBooks[p].asks # <<>> =>
                   Bucketed(orderBooks[p].asks, aggregatedOrderBook[1].asks, FALSE)

\* With the increment 0.005 three asks of the reference price 100.00 have
\* become two buckets: the ask at 100.00 is a bucket of its own price, and
\* the asks at 100.20 and 100.50 are one bucket of size 4 at 100.50.
wit_C38 ==
    /\ priceIncrement = 50
    /\ aggregatedOrderBook # <<>>
    /\ orderBooks[FeedProduct].asks =
          <<EntryAt("100.00", "2", "Kraken"), EntryAt("100.20", "1", "Coinbase"),
            EntryAt("100.50", "3", "Coinbase")>>
    /\ Len(aggregatedOrderBook[1].asks) = 2
    /\ aggregatedOrderBook[1].asks[1].price = NumberToString(100000000)
    /\ aggregatedOrderBook[1].asks[2].price = NumberToString(100500000)
    /\ aggregatedOrderBook[1].asks[2].size = NumberToString(400)
    /\ Len(orderBooks[FeedProduct].bids) >= 2

(***************************************************************************)
(* Price levels of quantity zero, in update events and in snapshot events. *)
(***************************************************************************)
\* A snapshot that lists a bid of quantity "0" and an ask of quantity "0.00".
ZeroSnapshot ==
    <<Upd("bid", "100.00", "1"), Upd("bid", "99.50", "0"),
      Upd("offer", "100.50", "1"), Upd("offer", "112.00", "0.00")>>

ZeroMessages ==
    {L2(<<Event(FeedProduct, "snapshot", u)>>) : u \in {ScenarioSnapshot, ZeroSnapshot}}
    \cup {L2(<<Event(FeedProduct, "update", b)>>) : b \in SingleUpdates}

NextZero ==
    \/ \E t \in Transports, data \in ZeroMessages : handleMessage(t, data)
    \/ subscribeToProduct(FeedProduct)
    \/ unsubscribeFromProduct(FeedProduct)

SpecZero == InitFeed /\ [][NextZero]_vars

\* The sizes of the entries of an order book.
SizesOf(book) ==
    {book.bids[i].size : i \in DOMAIN book.bids}
    \cup {book.asks[i].size : i \in DOMAIN book.asks}

\* C39: no entry of an order book has a size that parses to zero.
ctr_C39 ==
    \A p \in DOMAIN orderBooks :
       \A size \in SizesOf(orderBooks[p]) : ~ParsesToZero(size)

====
